---- MODULE Spec2Model ----
(***************************************************************************)
(* Adventure Simulation Core of the Telegram RPG bot: the scene graph and  *)
(* its requirement evaluator (app/game/scenes.py), the action consequence  *)
(* resolver (app/game/actions.py) and the combat resolver                  *)
(* (app/models/combat.py, app/handlers/combat.py).                         *)
(*                                                                         *)
(* Python strings are modelled as sequences of one-character strings, so   *)
(* that startswith, slicing, split and int() are computed as the code      *)
(* computes them.  A call that may raise returns a record                  *)
(* [raised, value]; raised = TRUE stands for a propagating ValueError.     *)
(***************************************************************************)
EXTENDS Integers, Sequences, FiniteSets, TLC

VARIABLES
    scenes,          \* SceneGraphManager.scenes, in insertion order
    end_conditions,  \* SceneGraphManager.end_conditions, in declaration order
    player_state,    \* PlayerState of the run
    pc,              \* position of the caller between two core calls
    call,            \* arguments and result of the last core call
    hist,            \* history: per scene, applications and applications since
    combat_state,    \* CombatState of the encounter (with enemy.hp_current)
    player_data,     \* the caller's player record (experience, gold, health)
    fsm              \* FSM: state of the chat context and last reply

vars == <<scenes, end_conditions, player_state, pc, call, hist, combat_state, player_data, fsm>>

-----------------------------------------------------------------------------
(* Python string primitives                                                *)

Digits == {"0", "1", "2", "3", "4", "5", "6", "7", "8", "9"}

Whitespace == {" "}

\* str.startswith(prefix)
StartsWith(s, prefix) ==
    /\ Len(s) >= Len(prefix)
    /\ SubSeq(s, 1, Len(prefix)) = prefix

\* s[k:]
SliceFrom(s, k) == SubSeq(s, k + 1, Len(s))

\* str.find(sep, start): first 1-based index >= i where sep occurs, 0 if none
RECURSIVE FindFrom(_, _, _)
FindFrom(s, sep, i) ==
    IF i + Len(sep) - 1 > Len(s) THEN 0
    ELSE IF SubSeq(s, i, i + Len(sep) - 1) = sep THEN i
    ELSE FindFrom(s, sep, i + 1)

\* str.split(sep): the parts between the non-overlapping occurrences of sep,
\* scanning from the left
RECURSIVE Split(_, _)
Split(s, sep) ==
    LET i == FindFrom(s, sep, 1) IN
    IF i = 0 THEN <<s>>
    ELSE <<SubSeq(s, 1, i - 1)>> \o Split(SubSeq(s, i + Len(sep), Len(s)), sep)

\* str.strip() as int() applies it to its argument
RECURSIVE LStrip(_)
LStrip(s) ==
    IF s # <<>> /\ Head(s) \in Whitespace THEN LStrip(Tail(s)) ELSE s

RECURSIVE RStrip(_)
RStrip(s) ==
    IF s # <<>> /\ s[Len(s)] \in Whitespace
    THEN RStrip(SubSeq(s, 1, Len(s) - 1)) ELSE s

DigitVal(c) ==
    CASE c = "0" -> 0 [] c = "1" -> 1 [] c = "2" -> 2 [] c = "3" -> 3
      [] c = "4" -> 4 [] c = "5" -> 5 [] c = "6" -> 6 [] c = "7" -> 7
      [] c = "8" -> 8 [] c = "9" -> 9

\* the digits of an int literal body: digits, with single underscores allowed
\* between two digits
IsIntBody(b) ==
    /\ b # <<>>
    /\ \A i \in 1..Len(b) : b[i] \in Digits \cup {"_"}
    /\ b[1] \in Digits /\ b[Len(b)] \in Digits
    /\ \A i \in 1..(Len(b) - 1) : ~(b[i] = "_" /\ b[i + 1] = "_")

RECURSIVE IntBodyVal(_, _)
IntBodyVal(b, acc) ==
    IF b = <<>> THEN acc
    ELSE IF Head(b) = "_" THEN IntBodyVal(Tail(b), acc)
    ELSE IntBodyVal(Tail(b), 10 * acc + DigitVal(Head(b)))

Ret(v) == [raised |-> FALSE, value |-> v]

ValueError == [raised |-> TRUE, value |-> FALSE]

\* "v = <call>; <rest>" where the call may raise: the exception propagates,
\* otherwise the rest runs on the returned value
Try(r, Then(_)) == IF r.raised THEN ValueError ELSE Then(r.value)

\* int(value) on a str: optional surrounding whitespace, optional sign,
\* decimal digits; anything else raises ValueError
PyInt(value) ==
    LET t == RStrip(LStrip(value))
        signed == t # <<>> /\ Head(t) \in {"+", "-"}
        body == IF signed THEN Tail(t) ELSE t
    IN  IF ~IsIntBody(body) THEN ValueError
        ELSE IF signed /\ Head(t) = "-" THEN Ret(0 - IntBodyVal(body, 0))
        ELSE Ret(IntBodyVal(body, 0))

\* str(v) for an int v
RECURSIVE NatStr(_)
NatStr(n) ==
    LET d == <<"0", "1", "2", "3", "4", "5", "6", "7", "8", "9">>[(n % 10) + 1] IN
    IF n < 10 THEN <<d>> ELSE NatStr(n \div 10) \o <<d>>

PyStr(v) == IF v < 0 THEN <<"-">> \o NatStr(0 - v) ELSE NatStr(v)

-----------------------------------------------------------------------------
(* String literals of the code                                             *)

VISITED_PREFIX == <<"v", "i", "s", "i", "t", "e", "d", ":">>
STAT_PREFIX == <<"s", "t", "a", "t", ":">>
GOAL_PREFIX == <<"g", "o", "a", "l", ":">>
OP_GE == <<">", "=">>
OP_LE == <<"<", "=">>
OP_EQ == <<"=", "=">>

\* stat names of PlayerState.stats
BRAVERY == <<"b", "r", "a", "v", "e", "r", "y">>
CHARISMA == <<"c", "h", "a", "r", "i", "s", "m", "a">>
INTELLECT == <<"i", "n", "t", "e", "l", "l", "e", "c", "t">>
STAMINA == <<"s", "t", "a", "m", "i", "n", "a">>
LEVEL == <<"l", "e", "v", "e", "l">>
GOLD == <<"g", "o", "l", "d">>
XP == <<"x", "p">>

-----------------------------------------------------------------------------
(* Requirement evaluator                                                   *)

\* dict.get(key, 0) on PlayerState.stats
StatsGet(stats, stat_name) ==
    IF stat_name \in DOMAIN stats THEN stats[stat_name] ELSE 0

StatCompare_Strict(parts, op, ps) ==
    Try(PyInt(parts[2]),
        LAMBDA v : Ret(CASE op = OP_GE -> StatsGet(ps.stats, parts[1]) > v
                         [] op = OP_LE -> StatsGet(ps.stats, parts[1]) < v
                         [] op = OP_EQ -> StatsGet(ps.stats, parts[1]) = v))

\* one arm of the stat branch: parts = [stat_name, value]
StatCompare(parts, op, ps) ==
    Try(PyInt(parts[2]),
        LAMBDA v : Ret(CASE op = OP_GE -> StatsGet(ps.stats, parts[1]) >= v
                         [] op = OP_LE -> StatsGet(ps.stats, parts[1]) <= v
                         [] op = OP_EQ -> StatsGet(ps.stats, parts[1]) = v))

\* the stat branch of _check_requirement; ge, le and eq are the parts of
\* requirement[5:] split on ">=", "<=" and "=="
StatRequirement(ge, le, eq, ps) ==
    IF Len(ge) = 2 THEN StatCompare(ge, OP_GE, ps)
    ELSE IF Len(le) = 2 THEN StatCompare(le, OP_LE, ps)
    ELSE IF Len(eq) = 2 THEN StatCompare(eq, OP_EQ, ps)
    ELSE Ret(FALSE)

\* SceneGraphManager._check_requirement
_check_requirement(requirement, ps) ==
    IF StartsWith(requirement, VISITED_PREFIX)
    THEN Ret(SliceFrom(requirement, 8) \in ps.visited_scenes)
    ELSE IF StartsWith(requirement, STAT_PREFIX)
    THEN StatRequirement(Split(SliceFrom(requirement, 5), OP_GE),
                         Split(SliceFrom(requirement, 5), OP_LE),
                         Split(SliceFrom(requirement, 5), OP_EQ), ps)
    ELSE IF StartsWith(requirement, GOAL_PREFIX)
    THEN Ret(SliceFrom(requirement, 5) \in ps.goals)
    ELSE Ret(FALSE)

-----------------------------------------------------------------------------
(* Optional[T]: None is the empty sequence, a value x is <<x>>             *)

None == <<>>

Some(x) == <<x>>

Max(a, b) == IF a >= b THEN a ELSE b

Min(a, b) == IF a <= b THEN a ELSE b

-----------------------------------------------------------------------------
(* Scene graph: availability and selection                                 *)

\* self.scenes.get(scene_id): Optional[Scene]
RECURSIVE ScenesGet(_, _)
ScenesGet(graph, scene_id) ==
    IF graph = <<>> THEN None
    ELSE IF Head(graph).id = scene_id THEN Some(Head(graph))
    ELSE ScenesGet(Tail(graph), scene_id)

\* "for requirement in reqs: if not self._check_requirement(...): return False",
\* then "return True"; a raising entry propagates, entries after the first
\* failing one are not evaluated
RECURSIVE AllRequirementsPass(_, _)
AllRequirementsPass(reqs, ps) ==
    IF reqs = <<>> THEN Ret(TRUE)
    ELSE Try(_check_requirement(Head(reqs), ps),
             LAMBDA met : IF ~met THEN Ret(FALSE)
                          ELSE AllRequirementsPass(Tail(reqs), ps))

\* "for block in scene.blocks: if self._check_requirement(...): return False"
RECURSIVE NoBlockHolds(_, _)
NoBlockHolds(blocks, ps) ==
    IF blocks = <<>> THEN Ret(TRUE)
    ELSE Try(_check_requirement(Head(blocks), ps),
             LAMBDA met : IF met THEN Ret(FALSE)
                          ELSE NoBlockHolds(Tail(blocks), ps))

OnceConsumed_Never(scene, ps) == FALSE

\* the once-only gate of _check_scene_availability
OnceConsumed(scene, ps) == scene.once /\ scene.id \in ps.visited_scenes

\* the cooldown gate of _check_scene_availability (cooldown None or 0 is falsy)
OnCooldown(scene, ps) ==
    /\ scene.cooldown # 0
    /\ scene.id \in DOMAIN ps.scene_cooldowns
    /\ ps.scene_cooldowns[scene.id] > 0

\* SceneGraphManager._check_scene_availability
_check_scene_availability(scene, ps) ==
    IF OnceConsumed(scene, ps) THEN Ret(FALSE)
    ELSE IF OnCooldown(scene, ps) THEN Ret(FALSE)
    ELSE Try(AllRequirementsPass(scene.requires, ps),
             LAMBDA met : IF ~met THEN Ret(FALSE)
                          ELSE NoBlockHolds(scene.blocks, ps))

_check_transition_requirements_Skip(transition, ps) == Ret(TRUE)

\* SceneGraphManager._check_transition_requirements
_check_transition_requirements(transition, ps) ==
    AllRequirementsPass(transition.requires, ps)

\* the list comprehension of the starting branch: scenes with no requires that
\* are available, as [weight, scene] pairs in graph order; acc holds the pairs
\* of the scenes already passed
RECURSIVE AvailableScenes(_, _, _)
AvailableScenes(graph, ps, acc) ==
    IF graph = <<>> THEN Ret(acc)
    ELSE LET scene == Head(graph) IN
         IF scene.requires # <<>> THEN AvailableScenes(Tail(graph), ps, acc)
         ELSE Try(_check_scene_availability(scene, ps),
                  LAMBDA available :
                      AvailableScenes(
                          Tail(graph), ps,
                          IF available
                          THEN Append(acc, [weight |-> scene.weight, scene |-> scene])
                          ELSE acc))

\* the body of the loop over current_scene.transitions: the pair to append,
\* if any
TransitionCandidate(transition, graph, ps) ==
    LET target_scene == ScenesGet(graph, transition.to) IN
    Try(_check_transition_requirements(transition, ps),
        LAMBDA ok :
            IF ~ok \/ target_scene = None THEN Ret(<<>>)
            ELSE Try(_check_scene_availability(target_scene[1], ps),
                     LAMBDA available :
                         IF available
                         THEN Ret(<<[weight |-> transition.weight,
                                     scene |-> target_scene[1]]>>)
                         ELSE Ret(<<>>)))

\* the loop over current_scene.transitions: (transition, target_scene) pairs
\* whose requirements pass and whose target exists and is available
RECURSIVE AvailableTransitions(_, _, _, _)
AvailableTransitions(transitions, graph, ps, acc) ==
    IF transitions = <<>> THEN Ret(acc)
    ELSE Try(TransitionCandidate(Head(transitions), graph, ps),
             LAMBDA pair :
                 AvailableTransitions(Tail(transitions), graph, ps, acc \o pair))

\* number of sample points of random.random(): k / RandomDraws, k < RandomDraws
RandomDraws == 4

RECURSIVE SumWeights(_)
SumWeights(cands) ==
    IF cands = <<>> THEN 0 ELSE Head(cands).weight + SumWeights(Tail(cands))

\* bisect(cum_weights, x): the number of cumulative weights <= x
BisectCum(cands, x) ==
    Cardinality({i \in 1..Len(cands) : SumWeights(SubSeq(cands, 1, i)) <= x})

RandomChoices_Uniform(cands, k) == Ret(Some(cands[(k % Len(cands)) + 1].scene))

\* random.choices(population, weights=...)[0], with random() = k / RandomDraws:
\* bisect(cum_weights, random() * total) counts the cumulative weights that are
\* <= floor(k * total / RandomDraws), the weights being integers.
\* Raises ValueError when the total of the weights is not positive.
RandomChoices(cands, k) ==
    LET total == SumWeights(cands)
        x == (k * total) \div RandomDraws
    IN  IF total <= 0 THEN ValueError
        ELSE Ret(Some(cands[Min(BisectCum(cands, x), Len(cands) - 1) + 1].scene))

get_next_scene_AnyScene(graph, ps, current_scene_id, k) ==
    Ret(Some(graph[(k % Len(graph)) + 1]))

\* SceneGraphManager.get_next_scene: Optional[Scene], or a ValueError
get_next_scene(graph, ps, current_scene_id, k) ==
    IF current_scene_id = None \/ current_scene_id = Some(<<>>)
    THEN Try(AvailableScenes(graph, ps, <<>>),
             LAMBDA available_scenes :
                 IF available_scenes # <<>>
                 THEN RandomChoices(available_scenes, k)
                 ELSE Ret(None))
    ELSE LET current_scene == ScenesGet(graph, current_scene_id[1]) IN
         IF current_scene = None THEN Ret(None)
         ELSE Try(AvailableTransitions(current_scene[1].transitions, graph, ps,
                                       <<>>),
                  LAMBDA available_transitions :
                      IF available_transitions = <<>> THEN Ret(None)
                      ELSE RandomChoices(available_transitions, k))

\* SceneGraphManager._apply_rewards (flat amounts; reward fields present as a set)
_apply_rewards(reward, ps) ==
    LET s1 == IF "gold" \in reward
              THEN [x \in DOMAIN ps.stats \cup {GOLD} |->
                        IF x = GOLD THEN StatsGet(ps.stats, GOLD) + 5
                        ELSE ps.stats[x]]
              ELSE ps.stats
        s2 == IF "xp" \in reward
              THEN [x \in DOMAIN s1 \cup {XP} |->
                        IF x = XP THEN StatsGet(s1, XP) + 3 ELSE s1[x]]
              ELSE s1
    IN  [ps EXCEPT !.stats = s2,
                   !.energy = IF "stamina" \in reward
                              THEN Min(100, ps.energy + 10) ELSE ps.energy]

\* the cooldown bookkeeping of apply_scene_consequences: set the scene's own
\* counter, then decrement every positive counter and delete those reaching 0
UpdateCooldowns(scene, cooldowns) ==
    LET set == IF scene.cooldown # 0
               THEN [k \in DOMAIN cooldowns \cup {scene.id} |->
                        IF k = scene.id THEN scene.cooldown ELSE cooldowns[k]]
               ELSE cooldowns
        keep == {k \in DOMAIN set : ~(set[k] > 0 /\ set[k] - 1 = 0)}
    IN  [k \in keep |-> IF set[k] > 0 THEN set[k] - 1 ELSE set[k]]

apply_scene_consequences_NoFloor(scene, ps) ==
    [ps EXCEPT !.visited_scenes = ps.visited_scenes \cup {scene.id},
               !.risk_level = ps.risk_level + scene.risk_delta,
               !.step_count = ps.step_count + 1]

\* SceneGraphManager.apply_scene_consequences
apply_scene_consequences(scene, ps) ==
    LET p1 == [ps EXCEPT
                 !.visited_scenes = ps.visited_scenes \cup {scene.id},
                 !.scene_cooldowns = UpdateCooldowns(scene, ps.scene_cooldowns),
                 !.risk_level = Max(0, ps.risk_level + scene.risk_delta),
                 !.step_count = ps.step_count + 1]
    IN  IF scene.reward # None THEN _apply_rewards(scene.reward[1], p1) ELSE p1

-----------------------------------------------------------------------------
(* Action consequences (app/game/actions.py)                               *)
(* success_probability is kept in hundredths: 0.7 is 70.                   *)

\* the members of enum Action
Action ==
    {"attack", "defend", "cast", "use_item", "talk", "sneak", "loot", "flee",
     "wait", "back", "accept", "investigate", "prepare", "run_ai", "continue",
     "rest", "explore", "negotiate", "retreat"}

NoStats == [x \in {} |-> 0]

\* ActionConsequence(...), with the defaults of the dataclass and __post_init__
ActionConsequence(stat_changes, energy_cost, risk_change, success_probability) ==
    [stat_changes |-> stat_changes, energy_cost |-> energy_cost,
     risk_change |-> risk_change, goal_updates |-> <<>>,
     success_probability |-> success_probability,
     failure_consequences |-> None]

\* ActionProcessor._get_base_consequence
_get_base_consequence(action) ==
    CASE action = "attack" -> ActionConsequence(BRAVERY :> 1, 15, 2, 70)
      [] action = "defend" -> ActionConsequence(STAMINA :> 1, 5, -1, 90)
      [] action = "cast" -> ActionConsequence(INTELLECT :> 1, 20, 1, 60)
      [] action = "talk" -> ActionConsequence(CHARISMA :> 1, 5, 0, 80)
      [] action = "sneak" -> ActionConsequence(STAMINA :> 1, 10, -1, 60)
      [] action = "loot" -> ActionConsequence(NoStats, 5, 1, 70)
      [] action = "flee" -> ActionConsequence(NoStats, 10, -2, 80)
      [] action = "wait" -> ActionConsequence(NoStats, 0, 0, 100)
      [] action = "accept" -> ActionConsequence(CHARISMA :> 1, 5, 1, 100)
      [] action = "investigate" -> ActionConsequence(INTELLECT :> 1, 8, 0, 70)
      [] action = "prepare" -> ActionConsequence(STAMINA :> 1, 3, -1, 100)
      [] action = "continue" -> ActionConsequence(NoStats, 5, 0, 100)
      [] action = "rest" -> ActionConsequence(NoStats, -20, -1, 100)
      [] action = "explore" -> ActionConsequence(INTELLECT :> 1, 12, 2, 60)
      [] action = "negotiate" -> ActionConsequence(CHARISMA :> 1, 8, 0, 70)
      [] action = "retreat" -> ActionConsequence(NoStats, 8, -2, 90)
      [] OTHER -> ActionConsequence(NoStats, 0, 0, 100)

\* int(x) of the float num/den: truncation toward zero
IntTrunc(num, den) ==
    IF num >= 0 THEN num \div den ELSE 0 - ((0 - num) \div den)

\* ActionProcessor._apply_scene_modifiers
_apply_scene_modifiers(consequence, scene_type) ==
    CASE scene_type = "combat" ->
           [consequence EXCEPT
              !.energy_cost = IntTrunc(consequence.energy_cost * 15, 10),
              !.risk_change = consequence.risk_change + 1]
      [] scene_type = "rest" ->
           [consequence EXCEPT
              !.energy_cost = Max(0, consequence.energy_cost - 5),
              !.risk_change = Max(-2, consequence.risk_change - 1)]
      [] scene_type = "exploration" ->
           [consequence EXCEPT
              !.energy_cost = IntTrunc(consequence.energy_cost * 12, 10),
              !.success_probability = (consequence.success_probability * 9) \div 10]
      [] OTHER -> consequence

\* ActionProcessor._apply_stat_modifiers
_apply_stat_modifiers(consequence, ps) ==
    LET c1 == IF StatsGet(ps.stats, INTELLECT) >= 3
              THEN [consequence EXCEPT
                      !.energy_cost = Max(0, consequence.energy_cost - 2)]
              ELSE consequence
        c2 == IF StatsGet(ps.stats, STAMINA) >= 3
              THEN [c1 EXCEPT !.energy_cost = Max(0, c1.energy_cost - 3)]
              ELSE c1
    IN  IF StatsGet(ps.stats, CHARISMA) >= 3
        THEN [c2 EXCEPT
                !.success_probability = Min(100, c2.success_probability + 10)]
        ELSE c2

process_action_StatsFirst(action, ps, scene_type) ==
    _apply_scene_modifiers(
        _apply_stat_modifiers(_get_base_consequence(action), ps), scene_type)

\* ActionProcessor.process_action
process_action(action, ps, scene_type) ==
    _apply_stat_modifiers(
        _apply_scene_modifiers(_get_base_consequence(action), scene_type), ps)

\* "player_state.stats[stat] = player_state.stats.get(stat, 0) + change"
AddStats(stats, stat_changes) ==
    [x \in DOMAIN stats \cup DOMAIN stat_changes |->
        IF x \in DOMAIN stat_changes
        THEN StatsGet(stats, x) + stat_changes[x] ELSE stats[x]]

ClampEnergy_NoFloor(e) == Min(100, e)

\* the energy clamp of apply_consequence
ClampEnergy(e) == Max(0, Min(100, e))

\* the risk floor of apply_consequence
FloorRisk(r) == Max(0, r)

\* ActionProcessor.apply_consequence; r is the draw of random.random() in
\* hundredths.  Returns the new PlayerState and, of the results dict,
\* "success", "energy_change" and "risk_change".
apply_consequence(consequence, ps, r) ==
    IF r > consequence.success_probability
    THEN [ps |-> ps, success |-> FALSE,
          energy_change |-> IF consequence.failure_consequences # None
                            THEN consequence.failure_consequences[1].energy_cost
                            ELSE 0,
          risk_change |-> IF consequence.failure_consequences # None
                          THEN consequence.failure_consequences[1].risk_change
                          ELSE 0]
    ELSE [ps |-> [ps EXCEPT
                    !.energy = ClampEnergy(ps.energy - consequence.energy_cost),
                    !.risk_level = FloorRisk(ps.risk_level + consequence.risk_change),
                    !.stats = AddStats(ps.stats, consequence.stat_changes),
                    !.goals = ps.goals \cup
                              {consequence.goal_updates[i] :
                                  i \in 1..Len(consequence.goal_updates)}],
          success |-> TRUE,
          energy_change |-> consequence.energy_cost,
          risk_change |-> consequence.risk_change]

-----------------------------------------------------------------------------
(* Scene definitions: the graphs the runs are explored on.  scenes.yaml is *)
(* an input of the program; these graphs exercise once-only scenes,        *)
(* cooldowns, requires/blocks, a transition to a missing scene, candidates *)
(* of weight 0 and a malformed requirement string.                         *)

TAVERN == <<"t", "a", "v", "e", "r", "n">>
FOREST == <<"f", "o", "r", "e", "s", "t">>
MARKET == <<"m", "a", "r", "k", "e", "t">>
CAVE == <<"c", "a", "v", "e">>
VAULT == <<"v", "a", "u", "l", "t">>
SHRINE == <<"s", "h", "r", "i", "n", "e">>
CRYPT == <<"c", "r", "y", "p", "t">>
GHOST == <<"g", "h", "o", "s", "t">>

REQ_BRAVERY_GE_2 == STAT_PREFIX \o BRAVERY \o OP_GE \o <<"2">>
REQ_VISITED_FOREST == VISITED_PREFIX \o FOREST
REQ_VISITED_MARKET == VISITED_PREFIX \o MARKET
REQ_BRAVERY_GE_ABC == STAT_PREFIX \o BRAVERY \o OP_GE \o <<"a", "b", "c">>

\* SceneTransition(to, weight, requires)
SceneTransition(to, weight, requires) ==
    [to |-> to, weight |-> weight, requires |-> requires]

\* Scene(...); cooldown None is 0, reward None or Some(set of present fields)
Scene(id, kind, weight, once, requires, blocks, transitions, cooldown,
      risk_delta, reward) ==
    [id |-> id, kind |-> kind, weight |-> weight, once |-> once,
     requires |-> requires, blocks |-> blocks, transitions |-> transitions,
     cooldown |-> cooldown, risk_delta |-> risk_delta, reward |-> reward]

MainGraph ==
    << Scene(TAVERN, "story", 2, FALSE, <<>>, <<>>,
             << SceneTransition(FOREST, 3, <<REQ_BRAVERY_GE_2>>),
                SceneTransition(MARKET, 1, <<>>),
                SceneTransition(GHOST, 1, <<>>),
                SceneTransition(VAULT, 0, <<>>) >>,
             0, 0, None),
       Scene(FOREST, "combat", 1, FALSE, <<REQ_BRAVERY_GE_2>>, <<>>,
             << SceneTransition(TAVERN, 1, <<>>),
                SceneTransition(CAVE, 2, <<REQ_VISITED_FOREST>>) >>,
             2, 2, None),
       Scene(MARKET, "rest", 1, FALSE, <<>>, <<>>,
             << SceneTransition(TAVERN, 1, <<>>),
                SceneTransition(FOREST, 1, <<>>) >>,
             1, -1, Some({"gold", "stamina"})),
       Scene(CAVE, "exploration", 1, TRUE, <<>>, <<REQ_VISITED_MARKET>>,
             << SceneTransition(VAULT, 0, <<>>),
                SceneTransition(SHRINE, 0, <<>>) >>,
             0, 1, Some({"xp"})),
       Scene(VAULT, "loot", 0, TRUE, <<>>, <<>>, <<>>, 0, 0, None),
       Scene(SHRINE, "story", 0, FALSE, <<>>, <<>>,
             << SceneTransition(CRYPT, 1, <<REQ_BRAVERY_GE_ABC>>) >>,
             0, 0, None),
       Scene(CRYPT, "story", 1, FALSE, <<REQ_BRAVERY_GE_ABC>>, <<>>, <<>>,
             0, 0, None) >>

\* a graph whose starting candidates all have weight 0
ZeroWeightGraph ==
    << Scene(VAULT, "loot", 0, TRUE, <<>>, <<>>, <<>>, 0, 0, None),
       Scene(SHRINE, "story", 0, FALSE, <<>>, <<>>, <<>>, 0, 0, None) >>

\* the graph left by a failed load
EmptyGraph == <<>>

Graphs == {MainGraph, ZeroWeightGraph, EmptyGraph}

SceneIds(graph) == {graph[i].id : i \in 1..Len(graph)}

-----------------------------------------------------------------------------
(* Bounds of the exploration                                               *)

MaxSteps == 3

MaxActions == 2

\* sample points of random.random(), in hundredths
Rolls == {0, 99}

\* actions and starting energies explored
ModelActions == {"attack", "rest"}

InitEnergies == {100, 20}

\* the history counters stop counting here
AppliedCap == 2

SinceCap == 3

-----------------------------------------------------------------------------
(* A run on the scene graph: the caller alternates get_next_scene followed *)
(* at once by apply_scene_consequences on its result (handlers/game.py     *)
(* cmd_adventure and on_adventure_action) with action applications.        *)

\* PlayerState(...) as _get_or_create_player_state creates it
NewPlayerState(energy) ==
    [current_scene |-> None, visited_scenes |-> {},
     scene_cooldowns |-> [x \in {} |-> 0], risk_level |-> 0, energy |-> energy,
     stats |-> (BRAVERY :> 1) @@ (CHARISMA :> 1) @@ (INTELLECT :> 1) @@
               (STAMINA :> 1) @@ (LEVEL :> 1) @@ (GOLD :> 0) @@ (XP :> 0),
     goals |-> {}, step_count |-> 0]

Idle == "n/a"

NewHist(graph) ==
    [applied |-> [id \in SceneIds(graph) |-> 0],
     since |-> [id \in SceneIds(graph) |-> -1],
     actions |-> 0]

InitScene ==
    /\ scenes \in Graphs
    /\ end_conditions = Idle
    /\ \E e \in InitEnergies : player_state = NewPlayerState(e)
    /\ pc = "idle"
    /\ call = [op |-> "none"]
    /\ hist = NewHist(scenes)
    /\ combat_state = Idle
    /\ player_data = Idle
    /\ fsm = Idle

\* scene_graph.get_next_scene(player_state, current_scene_id)
GetNextScene(current_scene_id, k) ==
    /\ pc = "idle"
    /\ player_state.step_count < MaxSteps
    /\ call' = [op |-> "get_next_scene", current_scene_id |-> current_scene_id,
                result |-> get_next_scene(scenes, player_state, current_scene_id, k)]
    /\ pc' = "selected"
    /\ UNCHANGED <<scenes, end_conditions, player_state, hist, combat_state, player_data, fsm>>

\* scene_graph.apply_scene_consequences(next_scene, player_state);
\* player_state.current_scene = next_scene.id
ApplySceneConsequences ==
    /\ pc = "selected"
    /\ ~call.result.raised
    /\ call.result.value # None
    /\ LET scene == call.result.value[1] IN
       /\ player_state' =
            [apply_scene_consequences(scene, player_state)
                EXCEPT !.current_scene = Some(scene.id)]
       /\ hist' = [hist EXCEPT
                     !.applied[scene.id] = Min(AppliedCap, @ + 1),
                     !.since = [id \in DOMAIN hist.since |->
                                  IF id = scene.id THEN 0
                                  ELSE IF hist.since[id] >= 0
                                       THEN Min(SinceCap, hist.since[id] + 1)
                                       ELSE -1]]
    /\ pc' = "idle"
    /\ call' = [op |-> "apply_scene_consequences",
                scene_id |-> call.result.value[1].id]
    /\ UNCHANGED <<scenes, end_conditions, combat_state, player_data, fsm>>

\* "if not next_scene": the caller gets the no-scene result
NoSceneAvailable ==
    /\ pc = "selected"
    /\ ~call.result.raised
    /\ call.result.value = None
    /\ pc' = "idle"
    /\ call' = [op |-> "no_scene"]
    /\ UNCHANGED <<scenes, end_conditions, player_state, hist, combat_state, player_data, fsm>>

\* get_next_scene raised: the caller's "except Exception" reports the error
SelectionRaised ==
    /\ pc = "selected"
    /\ call.result.raised
    /\ pc' = "idle"
    /\ call' = [op |-> "error"]
    /\ UNCHANGED <<scenes, end_conditions, player_state, hist, combat_state, player_data, fsm>>

\* process_action then apply_consequence, in the current scene's type
ApplyAction(action, r) ==
    /\ pc = "idle"
    /\ hist.actions < MaxActions
    /\ player_state.current_scene # None
    /\ LET current_scene == ScenesGet(scenes, player_state.current_scene[1])
           consequence == process_action(action, player_state,
                                         current_scene[1].kind)
           out == apply_consequence(consequence, player_state, r)
       IN  /\ current_scene # None
           /\ player_state' = out.ps
           /\ call' = [op |-> "apply_consequence", action |-> action,
                       energy_before |-> player_state.energy,
                       energy_cost |-> consequence.energy_cost,
                       risk_before |-> player_state.risk_level,
                       risk_change |-> consequence.risk_change,
                       success |-> out.success]
    /\ hist' = [hist EXCEPT !.actions = @ + 1]
    /\ UNCHANGED <<scenes, end_conditions, pc, combat_state, player_data, fsm>>

NextScene ==
    \/ \E id \in SceneIds(scenes) \cup {GHOST, <<>>} :
         \E k \in 0..(RandomDraws - 1) : GetNextScene(Some(id), k)
    \/ \E k \in 0..(RandomDraws - 1) : GetNextScene(None, k)
    \/ ApplySceneConsequences
    \/ NoSceneAvailable
    \/ SelectionRaised
    \/ \E action \in ModelActions : \E r \in Rolls : ApplyAction(action, r)

SpecScene == InitScene /\ [][NextScene]_vars

-----------------------------------------------------------------------------
(* Properties of the scene graph runs                                      *)

Selected == pc = "selected" /\ ~call.result.raised /\ call.result.value # None

StartCall == call.current_scene_id = None \/ call.current_scene_id = Some(<<>>)

RequirementTrue(requirement, ps) == _check_requirement(requirement, ps) = Ret(TRUE)

RequirementFalse(requirement, ps) == _check_requirement(requirement, ps) = Ret(FALSE)

\* C2: after any sequence of apply_scene_consequences (rewards included) and
\* apply_consequence calls, energy is in [0, 100] and risk_level is >= 0.
C2_EnergyRiskInBounds ==
    /\ player_state.energy >= 0 /\ player_state.energy <= 100
    /\ player_state.risk_level >= 0

\* an action succeeded whose cost exceeded the energy left, after a scene
\* whose risk_delta would have taken the risk below 0 was applied
C2_Witness ==
    /\ call.op = "apply_consequence" /\ call.success
    /\ call.energy_before - call.energy_cost < 0
    /\ hist.applied[MARKET] > 0

\* C4: a once-only scene whose id is in visited_scenes is never the result of
\* get_next_scene, from a start or from a transition, and so is applied at
\* most once.
C4_OnceNeverReturnedAgain ==
    /\ Selected =>
         ~(call.result.value[1].once
           /\ call.result.value[1].id \in player_state.visited_scenes)
    /\ \A i \in 1..Len(scenes) :
         scenes[i].once => hist.applied[scenes[i].id] <= 1

\* the once-only cave was applied, is not blocked, and a later starting
\* selection returned another scene
C4_Witness ==
    /\ Selected /\ StartCall
    /\ hist.applied[CAVE] = 1
    /\ MARKET \notin player_state.visited_scenes

\* C5: a scene with cooldown N >= 1 is unavailable right after it is applied
\* and until N further applications of other scenes, and its cooldown no
\* longer blocks it after those N applications.
C5_CooldownLastsN ==
    \A i \in 1..Len(scenes) :
        LET scene == scenes[i]
            since == hist.since[scene.id]
        IN  (pc = "idle" /\ scene.cooldown >= 1 /\ since >= 0) =>
                /\ since < scene.cooldown =>
                       _check_scene_availability(scene, player_state) = Ret(FALSE)
                /\ since >= scene.cooldown => ~OnCooldown(scene, player_state)

\* C8: _check_scene_availability is false exactly when the scene is once-only
\* and visited, or its remaining cooldown is > 0, or a requires entry is false,
\* or a blocks entry is true; and it is true otherwise.
C8_AvailabilityCharacterised ==
    \A i \in 1..Len(scenes) :
        LET scene == scenes[i]
            ps == player_state
            gated ==
                \/ scene.once /\ scene.id \in ps.visited_scenes
                \/ /\ scene.id \in DOMAIN ps.scene_cooldowns
                   /\ ps.scene_cooldowns[scene.id] > 0
                \/ \E j \in 1..Len(scene.requires) :
                       RequirementFalse(scene.requires[j], ps)
                \/ \E j \in 1..Len(scene.blocks) :
                       RequirementTrue(scene.blocks[j], ps)
        IN  _check_scene_availability(scene, ps) = Ret(~gated)

\* the candidates of a get_next_scene call, stated from the eligibility rules
EligibleStartingScenes(graph, ps) ==
    {graph[i] : i \in {j \in 1..Len(graph) :
        /\ graph[j].requires = <<>>
        /\ _check_scene_availability(graph[j], ps) = Ret(TRUE)}}

EligibleTransitionTargets(graph, ps, current_scene_id) ==
    LET current_scene == ScenesGet(graph, current_scene_id) IN
    IF current_scene = None THEN {}
    ELSE {target \in {graph[i] : i \in 1..Len(graph)} :
            \E j \in 1..Len(current_scene[1].transitions) :
                LET transition == current_scene[1].transitions[j] IN
                /\ transition.to = target.id
                /\ \A n \in 1..Len(transition.requires) :
                       RequirementTrue(transition.requires[n], ps)
                /\ _check_scene_availability(target, ps) = Ret(TRUE)}

EligibleCandidates ==
    IF StartCall THEN EligibleStartingScenes(scenes, player_state)
    ELSE EligibleTransitionTargets(scenes, player_state, call.current_scene_id[1])

\* C9: every scene get_next_scene returns is eligible at the moment of
\* selection: a requirement-free available scene for a start, the existing and
\* available target of a transition whose requires pass otherwise.
C9_ReturnedSceneEligible ==
    Selected => call.result.value[1] \in EligibleCandidates

\* the cave was returned over the transition gated by visited:forest
C9_Witness ==
    /\ Selected
    /\ call.current_scene_id = Some(FOREST)
    /\ call.result.value[1].id = CAVE

\* C10: get_next_scene never raises; it returns None iff the candidate set is
\* empty and a scene of the candidate set otherwise.
C10_SelectionTotal ==
    pc = "selected" =>
        /\ ~call.result.raised
        /\ call.result.value = None <=> EligibleCandidates = {}
        /\ call.result.value # None => call.result.value[1] \in EligibleCandidates

-----------------------------------------------------------------------------
(* The requirement evaluator on its own: requirement strings built from    *)
(* every stat name, operator and value of the pools below, and the         *)
(* unknown and malformed strings, evaluated against a PlayerState.         *)

LUCK == <<"l", "u", "c", "k">>
DONE == <<"d", "o", "n", "e">>
NAME_A_LE_B == <<"a", "<", "=", "b">>
NAME_A_GE_B == <<"a", ">", "=", "b">>
NAME_HP_EQ == <<"h", "p", "=">>

\* stat names free of the operator characters, and names containing them
CleanStatNames == {BRAVERY, LEVEL, LUCK, <<>>}

OperatorStatNames == {NAME_A_LE_B, NAME_A_GE_B, NAME_HP_EQ}

ReqOperators == {OP_GE, OP_LE, OP_EQ}

ReqValues == {-1, 0, 1, 2, 3, 12}

ReqStatValues == {0, 2, 3, 12}

ReqSceneIds == {FOREST, NAME_A_GE_B}

ReqGoals == {DONE}

\* strings with a prefix the evaluator does not know
UnknownPrefixStrings ==
    { <<"q", "u", "e", "s", "t", ":">> \o DONE,
      <<"V", "i", "s", "i", "t", "e", "d", ":">> \o FOREST,
      <<"v", "i", "s", "i", "t", "e", "d">>,
      BRAVERY \o OP_GE \o <<"1">>,
      <<>> }

\* stat requirements with no operator, several operators or a bad value
MalformedStatStrings ==
    { STAT_PREFIX \o BRAVERY,
      STAT_PREFIX \o BRAVERY \o OP_GE \o <<"1">> \o OP_GE \o <<"2">>,
      STAT_PREFIX \o BRAVERY \o OP_GE \o <<"1">> \o OP_LE \o <<"2">>,
      STAT_PREFIX \o BRAVERY \o OP_GE,
      STAT_PREFIX \o BRAVERY \o <<">", "2">>,
      REQ_BRAVERY_GE_ABC }

ReqSources ==
    [kind : {"stat"}, name : CleanStatNames \cup OperatorStatNames,
     op : ReqOperators, v : ReqValues]
    \cup [kind : {"visited"}, id : ReqSceneIds \cup {TAVERN}]
    \cup [kind : {"goal"}, goal : ReqGoals \cup {LUCK}]
    \cup [kind : {"unknown"}, text : UnknownPrefixStrings]
    \cup [kind : {"malformed"}, text : MalformedStatStrings]

\* the requirement string a source stands for
RequirementString(src) ==
    CASE src.kind = "stat" -> STAT_PREFIX \o src.name \o src.op \o PyStr(src.v)
      [] src.kind = "visited" -> VISITED_PREFIX \o src.id
      [] src.kind = "goal" -> GOAL_PREFIX \o src.goal
      [] OTHER -> src.text

InitReq ==
    /\ scenes = EmptyGraph
    /\ end_conditions = Idle
    /\ \E b \in ReqStatValues :
       \E visited \in SUBSET ReqSceneIds, goals \in SUBSET ReqGoals :
         player_state =
           [NewPlayerState(100) EXCEPT
              !.stats = (BRAVERY :> b) @@ (LEVEL :> 1) @@ (NAME_A_LE_B :> b)
                        @@ (NAME_A_GE_B :> b) @@ (NAME_HP_EQ :> b),
              !.visited_scenes = visited,
              !.goals = goals]
    /\ pc = "idle"
    /\ call = [op |-> "none"]
    /\ hist = Idle
    /\ combat_state = Idle
    /\ player_data = Idle
    /\ fsm = Idle

\* self._check_requirement(requirement, player_state)
CheckRequirement(src) ==
    /\ call' = [op |-> "check_requirement", src |-> src,
                requirement |-> RequirementString(src),
                result |-> _check_requirement(RequirementString(src), player_state)]
    /\ UNCHANGED <<scenes, end_conditions, player_state, pc, hist, combat_state, player_data, fsm>>

NextReq == \E src \in ReqSources : CheckRequirement(src)

SpecReq == InitReq /\ [][NextReq]_vars

Checked == call.op = "check_requirement"

\* C6: an unknown or malformed requirement string evaluates to false and
\* never raises.
C6_MalformedIsFalse ==
    (Checked /\ call.src.kind \in {"unknown", "malformed"}) =>
        call.result = Ret(FALSE)

\* what a requirement built from src is expected to evaluate to
ExpectedRequirement(src, ps) ==
    CASE src.kind = "stat" ->
           (CASE src.op = OP_GE -> StatsGet(ps.stats, src.name) >= src.v
              [] src.op = OP_LE -> StatsGet(ps.stats, src.name) <= src.v
              [] src.op = OP_EQ -> StatsGet(ps.stats, src.name) = src.v)
      [] src.kind = "visited" -> src.id \in ps.visited_scenes
      [] src.kind = "goal" -> src.goal \in ps.goals
      [] OTHER -> FALSE

\* C7 as stated: for every stat name, scene id, goal and integer v the
\* requirement evaluates to the comparison, the membership, or false for any
\* other prefix.
C7_EveryStatName ==
    (Checked /\ call.src.kind # "malformed") =>
        call.result = Ret(ExpectedRequirement(call.src, player_state))

\* C7 amended: the same, for stat names that contain none of the operator
\* characters '<', '>', '='.
C7_OperatorFreeStatNames ==
    (Checked /\ call.src.kind # "malformed"
       /\ (call.src.kind = "stat" => call.src.name \in CleanStatNames)) =>
        call.result = Ret(ExpectedRequirement(call.src, player_state))

\* stat:bravery>=12 evaluated true at the boundary bravery = 12
C7_Witness ==
    /\ Checked /\ call.src.kind = "stat"
    /\ call.src.name = BRAVERY /\ call.src.op = OP_GE /\ call.src.v = 12
    /\ call.result = Ret(TRUE)

-----------------------------------------------------------------------------
(* Combat resolver: app/models/combat.py                                   *)

\* StatusEffect
BLEED == "bleed"

WEAKEN == "weaken"

STUN == "stun"

\* ClassSkill values
POWER_STRIKE == <<"p", "o", "w", "e", "r", "_", "s", "t", "r", "i", "k", "e">>
BACKSTAB == <<"b", "a", "c", "k", "s", "t", "a", "b">>
ARCANE_BOLT == <<"a", "r", "c", "a", "n", "e", "_", "b", "o", "l", "t">>
SMITE == <<"s", "m", "i", "t", "e">>
AIMED_SHOT == <<"a", "i", "m", "e", "d", "_", "s", "h", "o", "t">>

ClassSkillValues == {POWER_STRIKE, BACKSTAB, ARCANE_BOLT, SMITE, AIMED_SHOT}

\* ClassSkill(value): the member with that value, ValueError if there is none
ClassSkill(value) ==
    IF value \in ClassSkillValues THEN Ret(value) ELSE ValueError

StatusEffectInstance(effect_type, duration) ==
    [effect_type |-> effect_type, duration |-> duration, value |-> 0]

\* Enemy.hp_current setter
SetHpCurrent(enemy, value) ==
    [enemy EXCEPT !.hp_current = Max(0, Min(value, enemy.hp_max))]

\* CombatState.is_combat_over
is_combat_over(cs) == cs.player_hp <= 0 \/ cs.enemy.hp_current <= 0

\* CombatCalculator.roll_dice: count dice of the given sides; u = 0 rolls
\* every die at 1, u = 1 rolls every die at its highest face
roll_dice(sides, count, u) == count * (1 + u * (sides - 1))

calculate_initiative_TiesToEnemy(player_agi, enemy_agi, p, e) ==
    IF player_agi + p > enemy_agi + e
    THEN <<"player", "enemy">> ELSE <<"enemy", "player">>

\* CombatCalculator.calculate_initiative; p and e are the two 1d6 rolls
calculate_initiative(player_agi, enemy_agi, p, e) ==
    IF player_agi + p >= enemy_agi + e
    THEN <<"player", "enemy">> ELSE <<"enemy", "player">>

\* CombatCalculator.calculate_hit_chance, in percent
calculate_hit_chance(player_agi, enemy_agi) ==
    Max(40, Min(95, 75 + (player_agi - enemy_agi) * 2))

\* CombatCalculator.calculate_damage
calculate_damage(base_damage, dice_roll, is_crit) ==
    LET total_damage == base_damage + dice_roll IN
    Max(1, IF is_crit THEN IntTrunc(total_damage * 15, 10) ELSE total_damage)

apply_armor_reduction_NoFloor(damage, armor, ignore_armor) ==
    IF ignore_armor THEN damage ELSE damage - armor

\* CombatCalculator.apply_armor_reduction
apply_armor_reduction(damage, armor, ignore_armor) ==
    IF ignore_armor THEN damage ELSE Max(1, damage - armor)

calculate_escape_chance_Uncapped(player_agi) == 50 + player_agi

\* CombatCalculator.calculate_escape_chance, in percent
calculate_escape_chance(player_agi) == Min(85, 50 + player_agi)

\* CombatCalculator.calculate_crit_chance (no call site in the combat actions)
calculate_crit_chance(base_crit, bonus) == Min(100, base_crit + bonus)

\* the crit chance the crit roll of a player's basic attack is compared with:
\* "attacker_crit = player_stats["crit_chance"] + combat_state.player_crit_bonus"
PlayerAttackCrit(cs, player_stats) == player_stats.crit_chance + cs.player_crit_bonus

\* the crit chance the crit roll of a skill is compared with; crit_bonus is
\* the 10.0 of AIMED_SHOT and 0 for the other skills
SkillCrit(player_stats, crit_bonus) == player_stats.crit_chance + crit_bonus

\* the "miss" return of execute_attack and execute_skill; a "hit" return
\* carries, next to the returned values, what the call handed to
\* calculate_damage and apply_armor_reduction.  In both, rnd holds
\* the draws of the call: hit and crit the values of random.random() * 100
\* of the hit roll and the crit roll, dice the draw of roll_dice, extra the
\* value of the skill's own random.random() * 100
NoAttack(cs) == [cs |-> cs, damage |-> 0, is_crit |-> FALSE, result |-> "miss",
                 new_effects |-> <<>>]

\* CombatActions.execute_attack
execute_attack(cs, player_stats, is_player_attacking, rnd) ==
    LET attacker_attack == IF is_player_attacking THEN player_stats.attack
                           ELSE cs.enemy.attack
        attacker_agi == IF is_player_attacking THEN player_stats.agility
                        ELSE cs.enemy.agility
        attacker_crit == IF is_player_attacking
                         THEN PlayerAttackCrit(cs, player_stats)
                         ELSE 5
        defender_agi == IF is_player_attacking THEN cs.enemy.agility
                        ELSE player_stats.agility
        defender_armor == IF is_player_attacking THEN cs.enemy.armor ELSE 0
        defender_hp == IF is_player_attacking THEN cs.enemy.hp_current
                       ELSE cs.player_hp
        hit_chance == calculate_hit_chance(attacker_agi, defender_agi)
        is_crit == rnd.crit <= attacker_crit
        dice_roll == roll_dice(6, 1, rnd.dice)
        damage == apply_armor_reduction(
                      calculate_damage(attacker_attack, dice_roll, is_crit),
                      defender_armor, FALSE)
    IN  IF rnd.hit > hit_chance THEN NoAttack(cs)
        ELSE [cs |-> IF is_player_attacking
                     THEN [cs EXCEPT !.enemy = SetHpCurrent(@, defender_hp - damage)]
                     ELSE [cs EXCEPT !.player_hp = defender_hp - damage],
              damage |-> damage, is_crit |-> is_crit, result |-> "hit",
              new_effects |-> <<>>,
              base_damage |-> attacker_attack, dice_roll |-> dice_roll,
              armor |-> defender_armor, ignore_armor |-> FALSE]

\* the part the five branches of execute_skill share: hit roll, crit roll,
\* damage, armor reduction and the write of enemy.hp_current
SkillStrike(cs, player_stats, base_damage, dice_roll, crit_bonus, ignore_armor, rnd) ==
    LET hit_chance == calculate_hit_chance(player_stats.agility, cs.enemy.agility)
        is_crit == rnd.crit <= SkillCrit(player_stats, crit_bonus)
        damage == apply_armor_reduction(
                      calculate_damage(base_damage, dice_roll, is_crit),
                      cs.enemy.armor, ignore_armor)
    IN  IF rnd.hit > hit_chance THEN NoAttack(cs)
        ELSE [cs |-> [cs EXCEPT !.enemy = SetHpCurrent(@, cs.enemy.hp_current - damage)],
              damage |-> damage, is_crit |-> is_crit, result |-> "hit",
              new_effects |-> <<>>,
              base_damage |-> base_damage, dice_roll |-> dice_roll,
              armor |-> cs.enemy.armor, ignore_armor |-> ignore_armor]

\* CombatActions.execute_skill
execute_skill(cs, player_stats, skill, rnd) ==
    CASE skill = POWER_STRIKE ->
           SkillStrike(cs, player_stats, player_stats.attack,
                       roll_dice(4, 2, rnd.dice), 0, FALSE, rnd)
      [] skill = BACKSTAB ->
           SkillStrike(cs, player_stats, player_stats.attack,
                       roll_dice(4, 1, rnd.dice), 0,
                       cs.turn_order[1] = "player" /\ rnd.extra < 50, rnd)
      [] skill = ARCANE_BOLT ->
           LET out == SkillStrike(cs, player_stats, player_stats.magic,
                                  roll_dice(8, 1, rnd.dice), 0, FALSE, rnd)
           IN  IF out.result = "hit" /\ rnd.extra < 30
               THEN [out EXCEPT !.new_effects =
                                   <<StatusEffectInstance(WEAKEN, 1)>>]
               ELSE out
      [] skill = SMITE ->
           LET out == SkillStrike(cs, player_stats, player_stats.magic,
                                  roll_dice(6, 1, rnd.dice), 0, FALSE, rnd)
           IN  IF out.result = "hit"
               THEN [out EXCEPT !.cs.player_hp =
                        Min(cs.player_max_hp,
                            cs.player_hp + player_stats.intelligence)]
               ELSE out
      [] skill = AIMED_SHOT ->
           LET out == SkillStrike(cs, player_stats, player_stats.attack,
                                  roll_dice(6, 1, rnd.dice), 10, FALSE, rnd)
           IN  IF out.result = "hit"
               THEN [out EXCEPT !.cs.player_crit_bonus = 10]
               ELSE out

\* CombatActions.execute_escape; rnd.hit is the call's one random.random() * 100
execute_escape(cs, player_stats, rnd) ==
    rnd.hit <= calculate_escape_chance(player_stats.agility)

\* one pass of process_status_effects over a list of effects: every BLEED
\* takes 2 HP, floored at 0
RECURSIVE BleedTicks(_, _)
BleedTicks(hp, effects) ==
    IF effects = <<>> THEN hp
    ELSE BleedTicks(IF Head(effects).effect_type = BLEED THEN Max(0, hp - 2) ELSE hp,
                    Tail(effects))

\* "effect.duration -= 1" on every effect, then the removal of the expired
RECURSIVE TickDurations(_)
TickDurations(effects) ==
    IF effects = <<>> THEN <<>>
    ELSE LET effect == [Head(effects) EXCEPT !.duration = @ - 1] IN
         (IF effect.duration <= 0 THEN <<>> ELSE <<effect>>)
             \o TickDurations(Tail(effects))

RECURSIVE CountEffects(_, _)
CountEffects(effects, types) ==
    IF effects = <<>> THEN 0
    ELSE (IF Head(effects).effect_type \in types THEN 1 ELSE 0)
             + CountEffects(Tail(effects), types)

process_status_effects_PlayerOnly(cs) ==
    [cs EXCEPT
       !.player_hp = BleedTicks(cs.player_hp, cs.player_status_effects),
       !.player_status_effects = TickDurations(cs.player_status_effects),
       !.combat_log = @ + CountEffects(cs.player_status_effects, {BLEED})]

\* CombatActions.process_status_effects; the returned log lines are appended
\* to combat_log by the caller, here in place
process_status_effects(cs) ==
    [cs EXCEPT
       !.player_hp = BleedTicks(cs.player_hp, cs.player_status_effects),
       !.player_status_effects = TickDurations(cs.player_status_effects),
       !.enemy = SetHpCurrent(@, BleedTicks(cs.enemy.hp_current,
                                            cs.enemy_status_effects)),
       !.enemy_status_effects = TickDurations(cs.enemy_status_effects),
       !.combat_log = @ + CountEffects(cs.player_status_effects, {BLEED})
                        + CountEffects(cs.enemy_status_effects, {BLEED, STUN})]

\* CombatActions.update_skill_cooldowns
update_skill_cooldowns(cs) ==
    [cs EXCEPT !.player_skill_cooldowns =
        [skill \in {s \in DOMAIN cs.player_skill_cooldowns :
                       cs.player_skill_cooldowns[s] - 1 > 0}
            |-> cs.player_skill_cooldowns[skill] - 1]]

\* class_skills of get_available_skills
ClassSkills(player_class) ==
    CASE player_class = "warrior" -> <<POWER_STRIKE>>
      [] player_class = "rogue" -> <<BACKSTAB>>
      [] player_class = "mage" -> <<ARCANE_BOLT>>
      [] player_class = "cleric" -> <<SMITE>>
      [] player_class = "ranger" -> <<AIMED_SHOT>>
      [] OTHER -> <<>>

\* CombatActions.get_available_skills
get_available_skills(player_class, cooldowns) ==
    LET Ready(skill) == skill \notin DOMAIN cooldowns \/ cooldowns[skill] <= 0
    IN  SelectSeq(ClassSkills(player_class), Ready)

\* base_stats of EnemyGenerator.generate_enemy for the enemy types of the
\* /combat command and for the gargoyle (armor 3); the multipliers are in
\* tenths
EnemyBaseStats(enemy_type) ==
    CASE enemy_type = "orc" ->
           [name |-> "Orc", hp_multiplier |-> 12, attack_multiplier |-> 15,
            magic_multiplier |-> 3, agi_multiplier |-> 8, armor |-> 2,
            gold_base |-> 8, xp_base |-> 15]
      [] enemy_type = "skeleton" ->
           [name |-> "Skeleton", hp_multiplier |-> 6, attack_multiplier |-> 10,
            magic_multiplier |-> 8, agi_multiplier |-> 12, armor |-> 1,
            gold_base |-> 3, xp_base |-> 8]
      [] enemy_type = "gargoyle" ->
           [name |-> "Stone Gargoyle", hp_multiplier |-> 15, attack_multiplier |-> 18,
            magic_multiplier |-> 4, agi_multiplier |-> 6, armor |-> 3,
            gold_base |-> 12, xp_base |-> 20]
      [] OTHER ->
           [name |-> "Goblin", hp_multiplier |-> 8, attack_multiplier |-> 12,
            magic_multiplier |-> 5, agi_multiplier |-> 15, armor |-> 0,
            gold_base |-> 5, xp_base |-> 10]

\* EnemyGenerator.generate_enemy with region_multiplier 1.0; a new Enemy's
\* hp_current reads as hp_max
generate_enemy(level, enemy_type) ==
    LET stats == EnemyBaseStats(enemy_type) IN
    [name |-> stats.name, level |-> level,
     hp_max |-> stats.hp_multiplier * level,
     attack |-> IntTrunc(stats.attack_multiplier * level + 20, 10),
     magic |-> IntTrunc(stats.magic_multiplier * level + 10, 10),
     agility |-> IntTrunc(stats.agi_multiplier * level + 80, 10),
     armor |-> stats.armor,
     gold_reward |-> stats.gold_base * level,
     xp_reward |-> stats.xp_base * level,
     hp_current |-> stats.hp_multiplier * level]

\* CombatState(player_hp, player_max_hp, enemy, turn_order); combat_log is
\* kept as the number of its lines
CombatState(player_hp, player_max_hp, enemy, turn_order) ==
    [player_hp |-> player_hp, player_max_hp |-> player_max_hp, enemy |-> enemy,
     turn_order |-> turn_order, current_turn |-> 0,
     player_status_effects |-> <<>>, enemy_status_effects |-> <<>>,
     player_skill_cooldowns |-> [skill \in {} |-> 0],
     combat_log |-> 0, player_crit_bonus |-> 0]

\* CharacterProgression.get_xp_required_for_level
get_xp_required_for_level(level) == 50 + 25 * level

\* the loop of CharacterProgression.get_level_from_xp
RECURSIVE LevelFromXpLoop(_, _, _)
LevelFromXpLoop(level, total_xp, xp) ==
    IF total_xp + get_xp_required_for_level(level) > xp THEN level
    ELSE LevelFromXpLoop(level + 1, total_xp + get_xp_required_for_level(level), xp)

get_level_from_xp(xp) == LevelFromXpLoop(1, 0, xp)

-----------------------------------------------------------------------------
(* Combat handlers: app/handlers/combat.py, app/handlers/commands/combat.py *)

\* callback data of the combat keyboards
COMBAT_PREFIX == <<"c", "o", "m", "b", "a", "t", "_">>
SKILL_PREFIX == <<"s", "k", "i", "l", "l", "_">>
ITEM_PREFIX == <<"i", "t", "e", "m", "_">>
UNDERSCORE == <<"_">>
WORD_ATTACK == <<"a", "t", "t", "a", "c", "k">>
WORD_SKILL == <<"s", "k", "i", "l", "l">>
WORD_ITEM == <<"i", "t", "e", "m">>
WORD_RUN == <<"r", "u", "n">>
WORD_BACK == <<"b", "a", "c", "k">>
COMBAT_ATTACK == COMBAT_PREFIX \o WORD_ATTACK
COMBAT_SKILL == COMBAT_PREFIX \o WORD_SKILL
COMBAT_ITEM == COMBAT_PREFIX \o WORD_ITEM
COMBAT_RUN == COMBAT_PREFIX \o WORD_RUN
COMBAT_BACK == COMBAT_PREFIX \o WORD_BACK

\* FSM states
COMBAT_ACTIVE == "CombatStates:COMBAT_ACTIVE"

NO_STATE == "None"

\* the player record of CombatCommandHandler._get_player_data
MockPlayerData ==
    [character_class |-> "warrior", level |-> 1, experience |-> 0,
     health |-> 24, max_health |-> 24, gold |-> 100,
     agility |-> 10, intelligence |-> 10,
     attack |-> 4, magic |-> 2, crit_chance |-> 5]

\* the stats dict the handlers build from player_data for the combat actions
PlayerStats(pd) ==
    [attack |-> pd.attack, magic |-> pd.magic, agility |-> pd.agility,
     intelligence |-> pd.intelligence, crit_chance |-> pd.crit_chance]

\* what a handler leaves behind: the CombatState object and the player_data
\* dict of the FSM data (both mutated in place), the FSM state, the reply
Handled(cs, pd, state, reply) ==
    [cs |-> cs, pd |-> pd, state |-> state, reply |-> reply]

\* CharacterManager.add_experience, short of a level-up
add_experience(character_data, xp_gained) ==
    [character_data EXCEPT !.experience = @ + xp_gained]

\* add_experience would call level_up_character on this record
LevelUpDue(character_data) ==
    get_level_from_xp(character_data.experience) > character_data.level

\* CombatHandler._handle_combat_victory
_handle_combat_victory(cs, pd) ==
    Handled(cs,
            add_experience([pd EXCEPT !.experience = @ + cs.enemy.xp_reward,
                                      !.gold = @ + cs.enemy.gold_reward], 0),
            NO_STATE, "victory")

\* CombatHandler._handle_combat_defeat
_handle_combat_defeat(cs, pd) ==
    LET gold_penalty == IntTrunc(pd.gold, 10) IN
    Handled(cs, [pd EXCEPT !.gold = Max(0, pd.gold - gold_penalty), !.health = 1],
            NO_STATE, "defeat")

\* CombatHandler._handle_combat_escape
_handle_combat_escape(cs, pd) == Handled(cs, pd, NO_STATE, "escape")

\* CombatHandler._update_combat_display
_update_combat_display(cs, pd, state) == Handled(cs, pd, state, "combat_status")

_execute_enemy_turn_IgnoreStun(cs, pd, state, rnd) ==
    LET attacked == execute_attack(cs, PlayerStats(pd), FALSE, rnd).cs
        logged == [attacked EXCEPT !.combat_log = @ + 1]
        ticked == update_skill_cooldowns(process_status_effects(logged))
        reset == [ticked EXCEPT !.player_crit_bonus = 0]
    IN  IF reset.player_hp <= 0 THEN _handle_combat_defeat(reset, pd)
        ELSE _update_combat_display(reset, pd, state)

\* CombatHandler._execute_enemy_turn
_execute_enemy_turn(cs, pd, state, rnd) ==
    LET enemy_stunned == CountEffects(cs.enemy_status_effects, {STUN}) > 0
        attacked == IF enemy_stunned THEN cs
                    ELSE execute_attack(cs, PlayerStats(pd), FALSE, rnd).cs
        logged == [attacked EXCEPT !.combat_log = @ + 1]
        ticked == update_skill_cooldowns(process_status_effects(logged))
        reset == [ticked EXCEPT !.player_crit_bonus = 0]
    IN  IF reset.player_hp <= 0 THEN _handle_combat_defeat(reset, pd)
        ELSE _update_combat_display(reset, pd, state)

\* CombatHandler._execute_player_attack
_execute_player_attack(cs, pd, state, rnd) ==
    LET out == execute_attack(cs, PlayerStats(pd), TRUE, rnd.player)
        logged == [out.cs EXCEPT !.combat_log = @ + 1]
    IN  IF logged.enemy.hp_current <= 0 THEN _handle_combat_victory(logged, pd)
        ELSE _execute_enemy_turn(logged, pd, state, rnd.enemy)

_execute_player_skill_IgnoreCooldown(cs, pd, state, skill, rnd) ==
    LET out == execute_skill(cs, PlayerStats(pd), skill, rnd.player)
        after == [out.cs EXCEPT
                    !.player_skill_cooldowns =
                        [s \in DOMAIN @ \cup {skill} |->
                            IF s = skill THEN 2 ELSE @[s]],
                    !.enemy_status_effects = @ \o out.new_effects,
                    !.combat_log = @ + 1 + Len(out.new_effects)]
    IN  IF after.enemy.hp_current <= 0 THEN _handle_combat_victory(after, pd)
        ELSE _execute_enemy_turn(after, pd, state, rnd.enemy)

\* CombatHandler._execute_player_skill
_execute_player_skill(cs, pd, state, skill, rnd) ==
    IF skill \in DOMAIN cs.player_skill_cooldowns
       /\ cs.player_skill_cooldowns[skill] > 0
    THEN Handled(cs, pd, state, "skill_on_cooldown")
    ELSE
      LET out == execute_skill(cs, PlayerStats(pd), skill, rnd.player)
          after == [out.cs EXCEPT
                      !.player_skill_cooldowns =
                          [s \in DOMAIN @ \cup {skill} |->
                              IF s = skill THEN 2 ELSE @[s]],
                      !.enemy_status_effects = @ \o out.new_effects,
                      !.combat_log = @ + 1 + Len(out.new_effects)]
      IN  IF after.enemy.hp_current <= 0 THEN _handle_combat_victory(after, pd)
          ELSE _execute_enemy_turn(after, pd, state, rnd.enemy)

_execute_escape_attempt_NoEnemyTurn(cs, pd, state, rnd) ==
    LET logged == [cs EXCEPT !.combat_log = @ + 1] IN
    IF execute_escape(cs, PlayerStats(pd), rnd.player)
    THEN _handle_combat_escape(logged, pd)
    ELSE _update_combat_display(logged, pd, state)

\* CombatHandler._execute_escape_attempt
_execute_escape_attempt(cs, pd, state, rnd) ==
    LET logged == [cs EXCEPT !.combat_log = @ + 1] IN
    IF execute_escape(cs, PlayerStats(pd), rnd.player)
    THEN _handle_combat_escape(logged, pd)
    ELSE _execute_enemy_turn(logged, pd, state, rnd.enemy)

\* CombatHandler._show_skill_selection
_show_skill_selection(cs, pd, state) ==
    IF get_available_skills(pd.character_class, cs.player_skill_cooldowns) = <<>>
    THEN Handled(cs, pd, state, "no_skills")
    ELSE Handled(cs, pd, state, "select_skill")

\* CombatHandler._show_item_selection
_show_item_selection(cs, pd, state) == Handled(cs, pd, state, "no_items")

\* CombatHandler.handle_combat_action past the "not found" check
handle_combat_action(cs, pd, state, reply, data, rnd) ==
    LET action == Split(data, UNDERSCORE)[2] IN
    CASE action = WORD_ATTACK -> _execute_player_attack(cs, pd, state, rnd)
      [] action = WORD_SKILL -> _show_skill_selection(cs, pd, state)
      [] action = WORD_ITEM -> _show_item_selection(cs, pd, state)
      [] action = WORD_RUN -> _execute_escape_attempt(cs, pd, state, rnd)
      [] OTHER -> Handled(cs, pd, state, reply)

\* CombatHandler.handle_skill_select past the "not found" check
handle_skill_select(cs, pd, state, data, rnd) ==
    LET skill == ClassSkill(Split(data, UNDERSCORE)[2]) IN
    IF skill.raised THEN Handled(cs, pd, state, "invalid_skill")
    ELSE _execute_player_skill(cs, pd, state, skill.value, rnd)

-----------------------------------------------------------------------------
(* The combat encounter: /combat commands and keyboard callbacks handled   *)
(* one after the other on one chat context.  The Dispatcher's default      *)
(* storage hands the handlers the stored objects themselves, so what a     *)
(* handler mutates is what the next handler reads.                         *)

\* updates (commands and callbacks) handled in one exploration
MaxUpdates == 4

\* values of random.random() * 100 for the hit roll (also the escape roll),
\* the crit roll and a skill's own roll; u of roll_dice; the two 1d6 of the
\* initiative
HitRolls == {50, 99}

CritRolls == {0, 50}

ExtraRolls == {0, 50}

DiceDraws == {0, 1}

InitiativeRolls == {1, 6}

EnemyTypes == {"goblin", "orc", "skeleton"}

\* a draw the code does not reach keeps one fixed value: after a hit roll
\* above 95 (calculate_hit_chance is at most 95) the call returns "miss"
\* before its other draws
Missed(r) == r.hit > 95

PlayerDraws ==
    {r \in [hit : HitRolls, crit : CritRolls, dice : DiceDraws, extra : ExtraRolls] :
        Missed(r) => (r.crit = 50 /\ r.dice = 0 /\ r.extra = 50)}

EnemyDraws ==
    {r \in [hit : HitRolls, crit : CritRolls, dice : DiceDraws] :
        Missed(r) => (r.crit = 50 /\ r.dice = 0)}

CombatDraws == [player : PlayerDraws, enemy : EnemyDraws]

NoDraws == [player |-> [hit |-> 99, crit |-> 50, dice |-> 0, extra |-> 50],
            enemy |-> [hit |-> 99, crit |-> 50, dice |-> 0]]

\* callback data a chat can send: the buttons of the combat keyboard and of
\* the skill keyboards, and an item button
CombatCallbacks ==
    {COMBAT_ATTACK, COMBAT_SKILL, COMBAT_ITEM, COMBAT_RUN, COMBAT_BACK}

SkillCallbacks == {SKILL_PREFIX \o POWER_STRIKE, SKILL_PREFIX \o BACKSTAB,
                   SKILL_PREFIX \o SMITE}

ItemCallbacks == {ITEM_PREFIX \o <<"p", "o", "t", "i", "o", "n">>}

\* the draws the handling of a callback can make: none for the menus and for
\* a skill name that is no ClassSkill, a skill's own roll for BACKSTAB and
\* ARCANE_BOLT only
DrawsFor(data) ==
    LET name == Split(data, UNDERSCORE)[2]
        draws == \/ data \in {COMBAT_ATTACK, COMBAT_RUN}
                 \/ StartsWith(data, SKILL_PREFIX) /\ name \in ClassSkillValues
        extra == StartsWith(data, SKILL_PREFIX) /\ name \in {BACKSTAB, ARCANE_BOLT}
    IN  IF ~draws THEN {NoDraws}
        ELSE {rnd \in CombatDraws : ~extra => rnd.player.extra = 50}

\* the FSM data holds no combat_state before the first /combat; it holds a
\* player_data record only if one was put there outside the combat code
InitCombat ==
    /\ scenes = Idle
    /\ end_conditions = Idle
    /\ player_state = Idle
    /\ pc = Idle
    /\ call = Idle
    /\ hist = Idle
    /\ combat_state = None
    /\ player_data \in {None, Some(MockPlayerData)}
    /\ fsm = [state |-> NO_STATE, reply |-> "none", last |-> <<>>, updates |-> 0]

\* the writes of a handler
Leave(out, data) ==
    /\ ~LevelUpDue(out.pd)
    /\ combat_state' = Some(out.cs)
    /\ player_data' = Some(out.pd)
    /\ fsm' = [state |-> out.state, reply |-> out.reply, last |-> data,
               updates |-> fsm.updates + 1]
    /\ UNCHANGED <<scenes, end_conditions, player_state, pc, call, hist>>

\* "Combat state not found!"
NotFound(data) ==
    /\ combat_state = None \/ player_data = None
    /\ fsm' = [fsm EXCEPT !.reply = "not_found", !.last = data,
                          !.updates = @ + 1]
    /\ UNCHANGED <<scenes, end_conditions, player_state, pc, call, hist, combat_state, player_data>>

\* CombatCommandHandler.handle_combat_command and CombatHandler.start_combat
HandleCombatCommand(enemy_type, p, e) ==
    /\ fsm.updates < MaxUpdates
    /\ IF fsm.state = COMBAT_ACTIVE
       THEN /\ fsm' = [fsm EXCEPT !.reply = "already_in_combat",
                                  !.last = <<"/">>, !.updates = @ + 1]
            /\ UNCHANGED combat_state
       ELSE LET pd == MockPlayerData
                enemy == generate_enemy(pd.level, enemy_type)
                turn_order == calculate_initiative(pd.agility, enemy.agility, p, e)
            IN  /\ combat_state' = Some(CombatState(pd.health, pd.max_health,
                                                     enemy, turn_order))
                /\ fsm' = [state |-> COMBAT_ACTIVE, reply |-> "combat_status",
                           last |-> <<"/">>, updates |-> fsm.updates + 1]
    /\ UNCHANGED <<scenes, end_conditions, player_state, pc, call, hist, player_data>>

\* CombatHandler.handle_combat_action: callbacks whose data starts "combat_"
HandleCombatAction(data, rnd) ==
    /\ fsm.updates < MaxUpdates
    /\ StartsWith(data, COMBAT_PREFIX)
    /\ \/ NotFound(data)
       \/ /\ combat_state # None /\ player_data # None
          /\ Leave(handle_combat_action(combat_state[1], player_data[1],
                                        fsm.state, fsm.reply, data, rnd), data)

\* CombatHandler.handle_skill_select: callbacks whose data starts "skill_"
HandleSkillSelect(data, rnd) ==
    /\ fsm.updates < MaxUpdates
    /\ StartsWith(data, SKILL_PREFIX)
    /\ \/ NotFound(data)
       \/ /\ combat_state # None /\ player_data # None
          /\ Leave(handle_skill_select(combat_state[1], player_data[1],
                                       fsm.state, data, rnd), data)

\* CombatHandler.handle_item_select: callbacks whose data starts "item_"
HandleItemSelect(data) ==
    /\ fsm.updates < MaxUpdates
    /\ StartsWith(data, ITEM_PREFIX)
    /\ fsm' = [fsm EXCEPT !.reply = "item_not_implemented", !.last = data,
                          !.updates = @ + 1]
    /\ UNCHANGED <<scenes, end_conditions, player_state, pc, call, hist, combat_state, player_data>>

NextCombat ==
    \/ \E enemy_type \in EnemyTypes : \E p \in InitiativeRolls, e \in InitiativeRolls :
         HandleCombatCommand(enemy_type, p, e)
    \/ \E data \in CombatCallbacks : \E rnd \in DrawsFor(data) :
         HandleCombatAction(data, rnd)
    \/ \E data \in SkillCallbacks : \E rnd \in DrawsFor(data) :
         HandleSkillSelect(data, rnd)
    \/ \E data \in ItemCallbacks : HandleItemSelect(data)

SpecCombat == InitCombat /\ [][NextCombat]_vars

-----------------------------------------------------------------------------
(* Claims about the combat encounter                                       *)

InCombatData == combat_state # None /\ combat_state # Idle

\* C1: after any sequence of combat operations player_hp stays within
\* [0, player_max_hp] and enemy.hp_current stays within [0, enemy.hp_max].
C1_HpWithinBounds ==
    InCombatData =>
        LET cs == combat_state[1] IN
        /\ 0 <= cs.player_hp /\ cs.player_hp <= cs.player_max_hp
        /\ 0 <= cs.enemy.hp_current /\ cs.enemy.hp_current <= cs.enemy.hp_max

\* attack, skill and escape callbacks
ActionCallbacks == {COMBAT_ATTACK, COMBAT_RUN} \cup SkillCallbacks

\* replies that report an error to the caller
ErrorReplies == {"not_found", "invalid_skill", "skill_on_cooldown"}

\* C3: a combat action (attack, skill or escape) submitted while the
\* CombatState is already terminal is rejected with an error and leaves the
\* CombatState and the player's data unchanged.
C3_TerminalActionRejected ==
    [][(/\ InCombatData
        /\ is_combat_over(combat_state[1])
        /\ fsm'.updates = fsm.updates + 1
        /\ fsm'.last \in ActionCallbacks)
         => (/\ combat_state' = combat_state
             /\ player_data' = player_data
             /\ fsm'.reply \in ErrorReplies)]_vars

-----------------------------------------------------------------------------
(* Selection weights                                                       *)

\* the scenes that are a candidate of positive weight: a requirement-free
\* available scene of positive weight for a start, otherwise the existing and
\* available target of a passing transition of positive weight
PositiveWeightCandidates ==
    IF StartCall
    THEN {s \in EligibleStartingScenes(scenes, player_state) : s.weight > 0}
    ELSE LET current_scene == ScenesGet(scenes, call.current_scene_id[1]) IN
         IF current_scene = None THEN {}
         ELSE {target \in EligibleTransitionTargets(scenes, player_state,
                                                    call.current_scene_id[1]) :
                 \E j \in 1..Len(current_scene[1].transitions) :
                     LET transition == current_scene[1].transitions[j] IN
                     /\ transition.to = target.id
                     /\ transition.weight > 0
                     /\ \A n \in 1..Len(transition.requires) :
                            RequirementTrue(transition.requires[n], player_state)}

\* C11: a candidate whose weight is 0 is never the result of get_next_scene,
\* for any random draw: every returned scene is a candidate of positive weight.
C11_ZeroWeightNeverDrawn ==
    Selected => call.result.value[1] \in PositiveWeightCandidates

\* a scene was returned while a candidate of weight 0 stood in the candidate
\* list (the vault, over the tavern's transition of weight 0)
C11_Witness ==
    /\ Selected
    /\ call.current_scene_id = Some(TAVERN)
    /\ EligibleCandidates \ PositiveWeightCandidates # {}

-----------------------------------------------------------------------------
(* End conditions: SceneGraphManager.check_end_conditions                  *)
(* A float bonus is kept as the fraction num/den.  A reason is a tuple of  *)
(* the message's kind and the values formatted into it.                    *)

\* EndCondition(...), with the defaults of the dataclass; threshold, goal and
\* base are Optional, bonus_by_stat is the dict's items in insertion order
EndCondition(kind, threshold, goal, dynamic, base, bonus_by_stat) ==
    [kind |-> kind, threshold |-> threshold, goal |-> goal,
     dynamic |-> dynamic, base |-> base, bonus_by_stat |-> bonus_by_stat]

\* "for stat_name, bonus in condition.bonus_by_stat.items():
\*      max_steps += int(stat_value * bonus)"
RECURSIVE AddStatBonuses(_, _, _)
AddStatBonuses(bonus_by_stat, ps, max_steps) ==
    IF bonus_by_stat = <<>> THEN max_steps
    ELSE LET item == Head(bonus_by_stat)
             stat_value == StatsGet(ps.stats, item.stat_name)
         IN  AddStatBonuses(Tail(bonus_by_stat), ps,
                 max_steps + IntTrunc(stat_value * item.bonus.num, item.bonus.den))

\* "condition.base or 4"
BaseOrDefault(base) == IF base = None \/ base[1] = 0 THEN 4 ELSE base[1]

\* the max_steps of a step_budget condition
StepBudget(condition, ps) ==
    IF condition.dynamic
    THEN AddStatBonuses(condition.bonus_by_stat, ps, BaseOrDefault(condition.base))
    ELSE BaseOrDefault(condition.base)

\* "condition.threshold" used as a condition
ThresholdTruthy(threshold) == threshold # None /\ threshold[1] # 0

\* the body of the loop of check_end_conditions: the reason this condition
\* returns, or None when the loop goes on
CheckCondition(condition, ps) ==
    CASE condition.kind = "risk_threshold" /\ ThresholdTruthy(condition.threshold) ->
           IF ps.risk_level >= condition.threshold[1]
           THEN Some(<<"Risk threshold reached", ps.risk_level>>) ELSE None
      [] condition.kind = "energy_depleted" /\ condition.threshold # None ->
           IF ps.energy <= condition.threshold[1]
           THEN Some(<<"Energy depleted">>) ELSE None
      [] condition.kind = "goal_reached" /\ condition.goal # None
            /\ condition.goal # Some(<<>>) ->
           IF condition.goal[1] \in ps.goals
           THEN Some(<<"Goal reached", condition.goal[1]>>) ELSE None
      [] condition.kind = "step_budget" ->
           IF ps.step_count >= StepBudget(condition, ps)
           THEN Some(<<"Step budget exceeded", ps.step_count,
                       StepBudget(condition, ps)>>)
           ELSE None
      [] OTHER -> None

\* SceneGraphManager.check_end_conditions
check_end_conditions(conditions, ps) ==
    LET hits == {i \in 1..Len(conditions) : CheckCondition(conditions[i], ps) # None}
    IN  IF hits = {} THEN None
        ELSE CheckCondition(conditions[CHOOSE i \in hits : \A j \in hits : i <= j], ps)

-----------------------------------------------------------------------------
(* check_end_conditions on its own: lists of end conditions of every kind, *)
(* with thresholds and bases that include 0 and the unconfigured default,  *)
(* evaluated against PlayerStates on both sides of each bound.             *)

\* bonus_by_stat: {"stamina": 0.5} and {"stamina": 1.5, "intellect": 0.5}
HalfStamina == << [stat_name |-> STAMINA, bonus |-> [num |-> 1, den |-> 2]] >>

TwoBonuses ==
    << [stat_name |-> STAMINA, bonus |-> [num |-> 3, den |-> 2]],
       [stat_name |-> INTELLECT, bonus |-> [num |-> 1, den |-> 2]] >>

EndThresholds == {0, 10}

EndEnergyThresholds == {0, 5}

EndBases == {None, Some(0), Some(2)}

EndBonuses == {<<>>, HalfStamina, TwoBonuses}

EndConditionPool ==
    {EndCondition("risk_threshold", Some(t), None, FALSE, None, <<>>) :
         t \in EndThresholds}
    \cup {EndCondition("energy_depleted", Some(t), None, FALSE, None, <<>>) :
         t \in EndEnergyThresholds}
    \cup {EndCondition("goal_reached", None, Some(DONE), FALSE, None, <<>>)}
    \cup {EndCondition("step_budget", None, None, FALSE, base, <<>>) :
         base \in EndBases}
    \cup {EndCondition("step_budget", None, None, TRUE, base, bonus) :
         base \in EndBases, bonus \in EndBonuses \ {<<>>}}

\* the configured lists: none, one condition, or two in either order
EndConditionLists ==
    {<<>>} \cup {<<c>> : c \in EndConditionPool}
    \cup {<<c, d>> : c \in EndConditionPool, d \in EndConditionPool}

EndRisks == {0, 9, 10}

EndEnergies == {0, 5, 6, 50}

EndSteps == {0, 2, 4, 6}

EndStamina == {1, 3}

InitEnd ==
    /\ scenes = EmptyGraph
    /\ end_conditions \in EndConditionLists
    /\ \E risk \in EndRisks, energy \in EndEnergies, steps \in EndSteps,
          stamina \in EndStamina, goals \in SUBSET ReqGoals :
         player_state =
           [NewPlayerState(energy) EXCEPT
              !.risk_level = risk, !.step_count = steps, !.goals = goals,
              !.stats = (STAMINA :> stamina) @@ NewPlayerState(energy).stats]
    /\ pc = "idle"
    /\ call = [op |-> "none"]
    /\ hist = Idle
    /\ combat_state = Idle
    /\ player_data = Idle
    /\ fsm = Idle

\* scene_graph.check_end_conditions(player_state)
CheckEndConditions ==
    /\ call.op = "none"
    /\ call' = [op |-> "check_end_conditions",
                result |-> check_end_conditions(end_conditions, player_state)]
    /\ UNCHANGED <<scenes, end_conditions, player_state, pc, hist, combat_state,
                   player_data, fsm>>

NextEnd == CheckEndConditions

SpecEnd == InitEnd /\ [][NextEnd]_vars

EndChecked == call.op = "check_end_conditions"

-----------------------------------------------------------------------------
(* Properties of check_end_conditions                                      *)

\* the sum over the configured stat bonuses of floor(stat_value * bonus)
RECURSIVE FloorBonusSum(_, _)
FloorBonusSum(bonus_by_stat, ps) ==
    IF bonus_by_stat = <<>> THEN 0
    ELSE LET item == Head(bonus_by_stat) IN
         ((StatsGet(ps.stats, item.stat_name) * item.bonus.num) \div item.bonus.den)
         + FloorBonusSum(Tail(bonus_by_stat), ps)

\* max_steps as stated: the configured base, 4 only when no base is configured,
\* plus the bonuses when the condition is dynamic
StatedMaxSteps(condition, ps) ==
    (IF condition.base = None THEN 4 ELSE condition.base[1])
    + (IF condition.dynamic THEN FloorBonusSum(condition.bonus_by_stat, ps) ELSE 0)

\* when a condition is satisfied, as stated for its kind
ConditionSatisfied(condition, ps) ==
    CASE condition.kind = "risk_threshold" ->
           ps.risk_level >= condition.threshold[1]
      [] condition.kind = "energy_depleted" ->
           ps.energy <= condition.threshold[1]
      [] condition.kind = "goal_reached" ->
           condition.goal[1] \in ps.goals
      [] condition.kind = "step_budget" ->
           ps.step_count >= StatedMaxSteps(condition, ps)

\* the reason a satisfied condition supplies
ConditionReason(condition, ps) ==
    CASE condition.kind = "risk_threshold" ->
           <<"Risk threshold reached", ps.risk_level>>
      [] condition.kind = "energy_depleted" -> <<"Energy depleted">>
      [] condition.kind = "goal_reached" -> <<"Goal reached", condition.goal[1]>>
      [] condition.kind = "step_budget" ->
           <<"Step budget exceeded", ps.step_count, StatedMaxSteps(condition, ps)>>

SatisfiedConditions ==
    {i \in 1..Len(end_conditions) :
        ConditionSatisfied(end_conditions[i], player_state)}

\* C13: check_end_conditions returns the reason of the first configured
\* condition, in declaration order, that is satisfied, and returns no reason
\* iff no configured condition is satisfied.
C13_FirstSatisfiedWins ==
    EndChecked =>
        IF SatisfiedConditions = {} THEN call.result = None
        ELSE LET first == CHOOSE i \in SatisfiedConditions :
                              \A j \in SatisfiedConditions : i <= j
             IN  call.result =
                     Some(ConditionReason(end_conditions[first], player_state))

OnlyCondition(kind) == Len(end_conditions) = 1 /\ end_conditions[1].kind = kind

\* C14: a risk_threshold condition with threshold t, 0 included, reports the
\* end iff risk_level >= t, and an energy_depleted condition with any
\* threshold, 0 included, reports it iff energy <= threshold.
C14_ThresholdsIncludingZero ==
    /\ (EndChecked /\ OnlyCondition("risk_threshold")) =>
         (call.result # None
            <=> player_state.risk_level >= end_conditions[1].threshold[1])
    /\ (EndChecked /\ OnlyCondition("energy_depleted")) =>
         (call.result # None
            <=> player_state.energy <= end_conditions[1].threshold[1])

\* C15: for a step_budget condition max_steps is the configured base (4 only
\* when none is configured) plus, when dynamic, the sum of
\* floor(stat_value * bonus), and the end is reported iff
\* step_count >= max_steps, for every base >= 0.
C15_StepBudget ==
    (EndChecked /\ OnlyCondition("step_budget")) =>
        LET max_steps == StatedMaxSteps(end_conditions[1], player_state) IN
        IF player_state.step_count >= max_steps
        THEN call.result =
               Some(<<"Step budget exceeded", player_state.step_count, max_steps>>)
        ELSE call.result = None

-----------------------------------------------------------------------------
(* The adventure loop: app/handlers/game.py.  /adventure commands and      *)
(* action callbacks are handled one after the other on one chat context;   *)
(* a handler is one step.  The PlayerState kept in the FSM data is the     *)
(* object the handlers mutate.  The scene description service answers, the *)
(* synchronisation of the FSM data succeeds, and callback_data.a is a      *)
(* member of Action.                                                       *)

QUEST_ACTIVE == "GameStates:QUEST_ACTIVE"

MENU == "GameStates:MENU"

\* the base_actions table of get_available_actions
BaseActions(scene_type) ==
    CASE scene_type = "story" -> <<"continue", "investigate", "run_ai">>
      [] scene_type = "choice" -> <<"accept", "talk", "investigate", "run_ai">>
      [] scene_type = "encounter" -> <<"attack", "defend", "talk", "flee", "run_ai">>
      [] scene_type = "dialogue" -> <<"talk", "negotiate", "investigate", "run_ai">>
      [] scene_type = "rest" -> <<"rest", "wait", "continue">>
      [] scene_type = "exploration" ->
           <<"explore", "investigate", "loot", "retreat", "run_ai">>
      [] scene_type = "quest" -> <<"accept", "investigate", "prepare", "run_ai">>
      [] scene_type = "loot" -> <<"loot", "investigate", "continue">>
      [] scene_type = "combat" -> <<"attack", "defend", "cast", "use_item", "flee">>
      [] OTHER -> <<"continue", "run_ai">>

Abs(n) == IF n < 0 THEN 0 - n ELSE n

_can_perform_action_AnyIntellect(action, ps) ==
    ~(ps.energy < Abs(_get_base_consequence(action).energy_cost))

\* _can_perform_action
_can_perform_action(action, ps) ==
    /\ ~(ps.energy < Abs(_get_base_consequence(action).energy_cost))
    /\ ~(action = "cast" /\ StatsGet(ps.stats, INTELLECT) < 2)

\* get_available_actions
get_available_actions(scene_type, ps) ==
    SelectSeq(BaseActions(scene_type), LAMBDA action : _can_perform_action(action, ps))

\* what a handler leaves: the stored PlayerState, the FSM state and data, the
\* keyboard of the message it sent (None: no keyboard) and the reply
Outcome(ps, state, adventure_active, current_scene, keyboard, reply) ==
    [ps |-> ps, state |-> state, adventure_active |-> adventure_active,
     current_scene |-> current_scene, keyboard |-> keyboard, reply |-> reply]

\* the last part of both handlers: apply the selected scene's consequences,
\* store it as the current scene and send it with its actions
EnterScene(scene, ps, reply) ==
    LET entered == [apply_scene_consequences(scene, ps)
                       EXCEPT !.current_scene = Some(scene.id)]
    IN  Outcome(entered, QUEST_ACTIVE, TRUE, Some(scene.id),
                Some(get_available_actions(scene.kind, entered)), reply)

\* _get_or_create_player_state, with settings.default_energy and max_energy
_get_or_create_player_state(stored) ==
    IF stored = None THEN NewPlayerState(100)
    ELSE [stored EXCEPT !.energy = Min(stored.energy, 100)]

\* cmd_adventure; stored is the PlayerState of the FSM data or None, data the
\* FSM data before the call, k the draw of the selection
cmd_adventure(stored, data, k) ==
    LET ps == _get_or_create_player_state(stored)
        kept == IF stored = None THEN None ELSE ps
        starting_scene == get_next_scene(scenes, ps, None, k)
    IN  IF ps.energy < 20
        THEN Outcome(kept, QUEST_ACTIVE, data.adventure_active,
                     data.current_scene, None, "not_enough_energy")
        ELSE IF starting_scene.raised
        THEN Outcome(kept, QUEST_ACTIVE, data.adventure_active,
                     data.current_scene, None, "adventure_error")
        ELSE IF starting_scene.value = None
        THEN Outcome(kept, QUEST_ACTIVE, data.adventure_active,
                     data.current_scene, None, "no_starting_scenes")
        ELSE EnterScene(starting_scene.value[1], ps, "adventure_begins")

\* _end_adventure
_end_adventure(ps, end_reason) ==
    Outcome(ps, MENU, FALSE, None, None, <<"adventure_complete", end_reason>>)

\* on_adventure_action from "Check if adventure should end" on; ps is the
\* PlayerState after the action
AfterAction(ps, data, k) ==
    LET end_reason == check_end_conditions(end_conditions, ps)
        next_scene == get_next_scene(scenes, ps, data.current_scene, k)
    IN  IF end_reason # None THEN _end_adventure(ps, end_reason[1])
        ELSE IF next_scene.raised
        THEN Outcome(ps, data.state, data.adventure_active, data.current_scene,
                     None, "error_processing_action")
        ELSE IF next_scene.value = None
        THEN _end_adventure(ps, <<"No more scenes available">>)
        ELSE EnterScene(next_scene.value[1], ps, "scene")

\* on_adventure_action; r is the draw of the success roll
on_adventure_action(stored, data, action, r, k) ==
    IF stored = None \/ data.current_scene = None \/ data.current_scene = Some(<<>>)
    THEN Outcome(stored, data.state, data.adventure_active, data.current_scene,
                 None, "adventure_state_not_found")
    ELSE LET current_scene == ScenesGet(scenes, data.current_scene[1]) IN
         IF current_scene = None
         THEN Outcome(stored, data.state, data.adventure_active,
                      data.current_scene, None, "scene_not_found")
         ELSE LET acted == apply_consequence(
                              process_action(action, stored, current_scene[1].kind),
                              stored, r).ps
              IN  IF action = "run_ai"
                  THEN Outcome(acted, data.state, data.adventure_active,
                               data.current_scene, None, "ai_action")
                  ELSE AfterAction(acted, data, k)

\* the end conditions the loop is explored with: none, a step budget of 2,
\* and a risk threshold of 2 before the default step budget
AdventureEndConditions ==
    { <<>>,
      << EndCondition("step_budget", None, None, FALSE, Some(2), <<>>) >>,
      << EndCondition("risk_threshold", Some(2), None, FALSE, None, <<>>),
         EndCondition("step_budget", None, None, FALSE, None, <<>>) >> }

AdventureActions == {"attack", "rest", "run_ai"}

\* the FSM context before the first update: no state, no data
InitAdventure ==
    /\ scenes \in Graphs
    /\ end_conditions \in AdventureEndConditions
    /\ player_state = None
    /\ pc = Idle
    /\ call = [op |-> "none"]
    /\ hist = Idle
    /\ combat_state = Idle
    /\ player_data = Idle
    /\ fsm = [state |-> NO_STATE, adventure_active |-> FALSE,
              current_scene |-> None, keyboard |-> None, reply |-> "none",
              updates |-> 0]

\* the handler's outcome becomes the stored PlayerState and the FSM context
Store(out) ==
    /\ player_state' = out.ps
    /\ fsm' = [state |-> out.state, adventure_active |-> out.adventure_active,
               current_scene |-> out.current_scene, keyboard |-> out.keyboard,
               reply |-> out.reply, updates |-> fsm.updates + 1]

\* "/adventure"
CmdAdventure(k) ==
    /\ fsm.updates < MaxUpdates
    /\ Store(cmd_adventure(player_state, fsm, k))
    /\ call' = [op |-> "cmd_adventure"]
    /\ UNCHANGED <<scenes, end_conditions, pc, hist, combat_state, player_data>>

\* a press on an action button, of the last keyboard or of an earlier one
OnAdventureAction(action, r, k) ==
    /\ fsm.updates < MaxUpdates
    /\ Store(on_adventure_action(player_state, fsm, action, r, k))
    /\ call' = [op |-> "on_adventure_action", action |-> action,
                applied |-> /\ player_state # None
                            /\ fsm.current_scene # None
                            /\ ScenesGet(scenes, fsm.current_scene[1]) # None,
                end_before |-> IF player_state = None THEN None
                               ELSE check_end_conditions(end_conditions,
                                                         player_state)]
    /\ UNCHANGED <<scenes, end_conditions, pc, hist, combat_state, player_data>>

NextAdventure ==
    \/ \E k \in 0..(RandomDraws - 1) : CmdAdventure(k)
    \/ \E action \in AdventureActions : \E r \in Rolls :
         \E k \in 0..(RandomDraws - 1) : OnAdventureAction(action, r, k)

SpecAdventure == InitAdventure /\ [][NextAdventure]_vars

-----------------------------------------------------------------------------
(* Properties of the adventure loop                                        *)

ActionsOffered == fsm.keyboard # None /\ fsm.keyboard # Some(<<>>)

EndReported ==
    player_state # None /\ check_end_conditions(end_conditions, player_state) # None

\* C12: the loop never offers the player actions from a PlayerState for which
\* check_end_conditions reports an end, and never accepts and applies an
\* action from such a PlayerState.
C12_NoActionsAfterEnd ==
    /\ ActionsOffered => ~EndReported
    /\ (call.op = "on_adventure_action" /\ call.applied) => call.end_before = None

-----------------------------------------------------------------------------
(* Properties of apply_scene_consequences, stated on the steps of the      *)
(* scene graph runs that apply a selected scene                            *)

\* the step is an apply_scene_consequences call on the selected scene
SceneApplied == pc = "selected" /\ call'.op = "apply_scene_consequences"

\* C16: applying a scene with cooldown N leaves scene_cooldowns[scene.id] = N
\* (the fresh counter is not decremented in the same call), decrements every
\* other active entry by exactly 1 and removes those that reach 0.
C16_OwnCooldownNotDecremented ==
    [][SceneApplied =>
         LET scene == call.result.value[1]
             before == player_state.scene_cooldowns
             after == player_state'.scene_cooldowns
         IN  /\ scene.cooldown >= 1 =>
                   /\ scene.id \in DOMAIN after
                   /\ after[scene.id] = scene.cooldown
             /\ \A id \in DOMAIN before \ {scene.id} :
                   before[id] > 0 =>
                       IF before[id] = 1 THEN id \notin DOMAIN after
                       ELSE id \in DOMAIN after /\ after[id] = before[id] - 1
    ]_vars

\* C17: each application adds scene.id to visited_scenes, increases step_count
\* by exactly 1 and sets risk_level to max(0, risk_level + risk_delta); no
\* other step changes step_count or visited_scenes, so step_count counts the
\* applications and visited_scenes only grows.
C17_VisitedStepsRisk ==
    [][IF SceneApplied
       THEN LET scene == call.result.value[1] IN
            /\ player_state'.visited_scenes =
                   player_state.visited_scenes \cup {scene.id}
            /\ player_state'.step_count = player_state.step_count + 1
            /\ player_state'.risk_level =
                   Max(0, player_state.risk_level + scene.risk_delta)
       ELSE /\ player_state'.step_count = player_state.step_count
            /\ player_state'.visited_scenes = player_state.visited_scenes
    ]_vars

\* the market (risk_delta -1) was applied a second time, at risk_level 0
C17_Witness ==
    /\ call.op = "apply_scene_consequences"
    /\ call.scene_id = MARKET
    /\ hist.applied[MARKET] = 2
    /\ player_state.risk_level = 0

-----------------------------------------------------------------------------
(* The action resolver on its own: every action, in scene contexts of each *)
(* modifier and of none, for stats on both sides of the modifiers' bounds, *)
(* resolved by process_action and applied by apply_consequence; and        *)
(* apply_consequence on a consequence that carries failure_consequences.   *)

ActionSceneTypes == {"combat", "rest", "exploration", "story", ""}

ActionStatValues == {1, 3}

ActionEnergies == {0, 3, 50, 90, 100}

ActionRisks == {0, 1, 5}

\* failure_consequences=ActionConsequence(stat_changes={"bravery": -1},
\*                                        energy_cost=5, risk_change=1)
FailurePenalty == ActionConsequence(BRAVERY :> -1, 5, 1, 100)

InitAction ==
    /\ scenes = EmptyGraph
    /\ end_conditions = Idle
    /\ \E energy \in ActionEnergies, risk \in ActionRisks,
          intellect \in ActionStatValues, stamina \in ActionStatValues,
          charisma \in ActionStatValues :
         player_state =
           [NewPlayerState(energy) EXCEPT
              !.risk_level = risk,
              !.stats = (INTELLECT :> intellect) @@ (STAMINA :> stamina) @@
                        (CHARISMA :> charisma) @@ NewPlayerState(energy).stats]
    /\ pc = "idle"
    /\ \E action \in Action, scene_type \in ActionSceneTypes :
         call = [op |-> "none", action |-> action, scene_type |-> scene_type]
    /\ hist = Idle
    /\ combat_state = Idle
    /\ player_data = Idle
    /\ fsm = Idle

\* apply_consequence(consequence, player_state) with the roll r
ApplyTo(consequence, r, op) ==
    LET out == apply_consequence(consequence, player_state, r) IN
    /\ player_state' = out.ps
    /\ call' = [op |-> op, action |-> call.action, scene_type |-> call.scene_type,
                consequence |-> consequence, success |-> out.success]
    /\ UNCHANGED <<scenes, end_conditions, pc, hist, combat_state, player_data, fsm>>

\* consequence = process_action(action, player_state, scene_context);
\* apply_consequence(consequence, player_state)
ProcessAndApply(r) ==
    /\ call.op = "none"
    /\ ApplyTo(process_action(call.action, player_state, call.scene_type), r,
               "process_action")

\* apply_consequence on the action's consequence with failure_consequences set
ApplyWithFailureConsequences(r) ==
    /\ call.op = "none"
    /\ ApplyTo([process_action(call.action, player_state, call.scene_type)
                   EXCEPT !.failure_consequences = Some(FailurePenalty)], r,
               "apply_consequence")

NextAction ==
    \/ \E r \in Rolls : ProcessAndApply(r)
    \/ \E r \in Rolls : ApplyWithFailureConsequences(r)

SpecAction == InitAction /\ [][NextAction]_vars

-----------------------------------------------------------------------------
(* Properties of the action resolver                                       *)

\* the step resolves and applies the action of the call
ActionResolved == call.op = "none" /\ call'.op # "none"

\* a consequence's energy cost, risk change and stat changes applied to ps
StatedApplication(consequence, ps) ==
    [ps EXCEPT !.energy = Max(0, Min(100, ps.energy - consequence.energy_cost)),
               !.risk_level = Max(0, ps.risk_level + consequence.risk_change),
               !.stats = AddStats(ps.stats, consequence.stat_changes)]

\* C18: when the success roll fails, the failure_consequences, if present, are
\* applied to the PlayerState in place of the success consequence; if there
\* are none the PlayerState is unchanged; failure is reported in both cases.
C18_FailureConsequencesApplied ==
    [][(ActionResolved /\ ~call'.success) =>
         IF call'.consequence.failure_consequences # None
         THEN player_state' =
                StatedApplication(call'.consequence.failure_consequences[1],
                                  player_state)
         ELSE player_state' = player_state
    ]_vars

\* C19: REST on energy e and risk r yields energy min(100, e + 20) and
\* risk_level max(0, r - 1), in every scene context and for every stat
\* combination.
C19_RestRestoresTwenty ==
    [][(ActionResolved /\ call.action = "rest") =>
         /\ call'.success
         /\ player_state'.energy = Min(100, player_state.energy + 20)
         /\ player_state'.risk_level = Max(0, player_state.risk_level - 1)
    ]_vars

\* energy_cost as stated: base value, scene-type modifier, stat modifiers
StatedEnergyCost(action, scene_type, ps) ==
    LET base == _get_base_consequence(action).energy_cost
        in_scene == CASE scene_type = "combat" -> (base * 15) \div 10
                      [] scene_type = "rest" -> Max(0, base - 5)
                      [] scene_type = "exploration" -> (base * 12) \div 10
                      [] OTHER -> base
        by_intellect == IF StatsGet(ps.stats, INTELLECT) >= 3
                        THEN Max(0, in_scene - 2) ELSE in_scene
    IN  IF StatsGet(ps.stats, STAMINA) >= 3
        THEN Max(0, by_intellect - 3) ELSE by_intellect

\* risk_change as stated: base value, scene-type modifier
StatedRiskChange(action, scene_type) ==
    LET base == _get_base_consequence(action).risk_change
    IN  CASE scene_type = "combat" -> base + 1
          [] scene_type = "rest" -> Max(-2, base - 1)
          [] OTHER -> base

TableActions ==
    Action \ {"use_item", "back", "run_ai"}

-----------------------------------------------------------------------------
(* get_available_actions on its own: every scene type of SceneType and an  *)
(* unknown one, energies on both sides of every base cost, intellect on    *)
(* both sides of 2.                                                        *)

AvailSceneTypes ==
    {"story", "choice", "encounter", "dialogue", "rest", "exploration",
     "quest", "loot", "combat", "unknown"}

AvailEnergies == {0, 2, 3, 4, 5, 7, 8, 9, 10, 11, 12, 14, 15, 19, 20, 100}

AvailIntellects == {0, 1, 2, 3}

InitAvail ==
    /\ scenes = EmptyGraph
    /\ end_conditions = Idle
    /\ \E energy \in AvailEnergies, intellect \in AvailIntellects :
         player_state =
           [NewPlayerState(energy) EXCEPT
              !.stats = (INTELLECT :> intellect) @@ NewPlayerState(energy).stats]
    /\ pc = "idle"
    /\ \E scene_type \in AvailSceneTypes :
         call = [op |-> "none", scene_type |-> scene_type]
    /\ hist = Idle
    /\ combat_state = Idle
    /\ player_data = Idle
    /\ fsm = Idle

\* get_available_actions(scene_type, player_state)
GetAvailableActions ==
    /\ call.op = "none"
    /\ call' = [op |-> "get_available_actions", scene_type |-> call.scene_type,
                result |-> get_available_actions(call.scene_type, player_state)]
    /\ UNCHANGED <<scenes, end_conditions, player_state, pc, hist, combat_state,
                   player_data, fsm>>

NextAvail == GetAvailableActions

SpecAvail == InitAvail /\ [][NextAvail]_vars

\* the actions of a list that the player can afford, CAST needing intellect 2
StatedAvailable(actions, ps) ==
    {actions[i] : i \in {j \in 1..Len(actions) :
        /\ Abs(_get_base_consequence(actions[j]).energy_cost) <= ps.energy
        /\ actions[j] = "cast" => StatsGet(ps.stats, INTELLECT) >= 2}}

\* the position of an action in a list without repetitions
PositionIn(actions, action) == CHOOSE i \in 1..Len(actions) : actions[i] = action

\* C21: get_available_actions returns exactly the actions of the scene type's
\* fixed list (the default list for an unknown type), in list order, whose
\* base |energy_cost| is <= energy, CAST only with intellect >= 2.
C21_AvailableActions ==
    call.op = "get_available_actions" =>
        LET list == BaseActions(call.scene_type)
            result == call.result
        IN  /\ {result[i] : i \in 1..Len(result)} =
                   StatedAvailable(list, player_state)
            /\ \A i \in 1..Len(result) : \A j \in 1..Len(result) :
                   i < j => PositionIn(list, result[i]) < PositionIn(list, result[j])
            /\ call.scene_type = "unknown" => list = <<"continue", "run_ai">>
            /\ call.scene_type = "combat" =>
                   list = <<"attack", "defend", "cast", "use_item", "flee">>

\* a combat scene, energy for every action, intellect below 2: CAST is left out
C21_Witness ==
    /\ call.op = "get_available_actions"
    /\ call.scene_type = "combat"
    /\ player_state.energy = 100
    /\ StatsGet(player_state.stats, INTELLECT) = 1
    /\ call.result = <<"attack", "defend", "use_item", "flee">>

-----------------------------------------------------------------------------
(* The combat calculators on their own: agilities from 0 up, on both sides *)
(* of the bounds of the hit and escape chances, and the crit chances that  *)
(* calculate_derived_stats gives, with and without the Aimed Shot bonus.   *)

\* crit_chance of CharacterProgression.calculate_derived_stats:
\* min(35.0, 5.0 + 0.5 * agility), exact for the even agilities used here
DerivedCritChance(agility) == Min(35, 5 + agility \div 2)

CalcAgilities == {0, 2, 8, 10, 18, 20, 28, 34, 36, 60, 80}

CalcCritBonuses == {0, 10}

InitCalc ==
    /\ scenes = Idle
    /\ end_conditions = Idle
    /\ player_state = Idle
    /\ pc = Idle
    /\ \E attacker_agi \in CalcAgilities, defender_agi \in CalcAgilities,
          crit_bonus \in CalcCritBonuses :
         call = [op |-> "none", attacker_agi |-> attacker_agi,
                 defender_agi |-> defender_agi,
                 crit_chance |-> DerivedCritChance(attacker_agi),
                 crit_bonus |-> crit_bonus]
    /\ hist = Idle
    /\ combat_state = Idle
    /\ player_data = Idle
    /\ fsm = Idle

Calculated(op, result) ==
    /\ call.op = "none"
    /\ call' = [call EXCEPT !.op = op] @@ [result |-> result]
    /\ UNCHANGED <<scenes, end_conditions, player_state, pc, hist, combat_state,
                   player_data, fsm>>

\* CombatCalculator.calculate_hit_chance(attacker_agi, defender_agi)
CalculateHitChance ==
    Calculated("calculate_hit_chance",
               calculate_hit_chance(call.attacker_agi, call.defender_agi))

\* CombatCalculator.calculate_escape_chance(player_agi)
CalculateEscapeChance ==
    Calculated("calculate_escape_chance", calculate_escape_chance(call.attacker_agi))

\* the crit chance of the crit roll of a basic attack of the player
AttackCritRoll ==
    Calculated("attack_crit",
               PlayerAttackCrit([player_crit_bonus |-> call.crit_bonus],
                                [crit_chance |-> call.crit_chance]))

\* the crit chance of the crit roll of a skill
SkillCritRoll ==
    Calculated("skill_crit",
               SkillCrit([crit_chance |-> call.crit_chance], call.crit_bonus))

\* CombatCalculator.calculate_crit_chance(base_crit, bonus)
CalculateCritChance ==
    Calculated("calculate_crit_chance",
               calculate_crit_chance(call.crit_chance, call.crit_bonus))

\* the faces of random.randint(1, 6)
D6 == 1..6

\* CombatCalculator.calculate_initiative(player_agi, enemy_agi) with the
\* player's roll p and the enemy's roll e
CalculateInitiative(p, e) ==
    /\ call.op = "none"
    /\ call' = [call EXCEPT !.op = "calculate_initiative"]
                 @@ [result |-> calculate_initiative(call.attacker_agi,
                                                     call.defender_agi, p, e),
                     p |-> p, e |-> e]
    /\ UNCHANGED <<scenes, end_conditions, player_state, pc, hist, combat_state,
                   player_data, fsm>>

NextCalc ==
    \/ \E p \in D6, e \in D6 : CalculateInitiative(p, e)
    \/ CalculateHitChance
    \/ CalculateEscapeChance
    \/ CalculateCritChance
    \/ AttackCritRoll
    \/ SkillCritRoll

SpecCalc == InitCalc /\ [][NextCalc]_vars

\* C22: the hit chance is clamp(75 + 2*(attackerAgi - defenderAgi), 40, 95),
\* within [40, 95]; the escape chance is min(85, 50 + agility), within
\* [50, 85]; the crit chance of a crit roll is at most 100.
C22_ChancesWithinBounds ==
    /\ call.op = "calculate_hit_chance" =>
         LET raw == 75 + 2 * (call.attacker_agi - call.defender_agi) IN
         /\ call.result = (IF raw < 40 THEN 40 ELSE IF raw > 95 THEN 95 ELSE raw)
         /\ 40 <= call.result /\ call.result <= 95
    /\ call.op = "calculate_escape_chance" =>
         /\ call.result = (IF 50 + call.attacker_agi > 85 THEN 85
                           ELSE 50 + call.attacker_agi)
         /\ 50 <= call.result /\ call.result <= 85
    /\ call.op \in {"calculate_crit_chance", "attack_crit", "skill_crit"} =>
         call.result <= 100

\* an escape chance capped at 85 for an agility above 35
C22_Witness ==
    /\ call.op = "calculate_escape_chance"
    /\ call.attacker_agi = 60
    /\ call.result = 85

-----------------------------------------------------------------------------
(* The combat actions on their own: CombatActions.execute_attack,          *)
(* execute_skill and process_status_effects and the handler's enemy turn,  *)
(* called on a CombatState whose hit points, armor and status effects are   *)
(* drawn from pools.                                                        *)

\* the player of test_combat.create_test_player (strength 12, the other
\* attributes 10 or 12) in the shape of the handlers' player_data
TestWarriorData ==
    [MockPlayerData EXCEPT !.health = 68, !.max_health = 68,
                           !.attack = 14, !.magic = 12, !.crit_chance = 10]

ResolverPlayers == {MockPlayerData, TestWarriorData}

ResolverEnemyTypes == {"goblin", "orc", "gargoyle"}

\* hit points left to a side when the call is made
ResolverHp == {1, 5}

ResolverPlayerEffects ==
    {<<>>,
     <<StatusEffectInstance(WEAKEN, 2)>>,
     <<StatusEffectInstance(BLEED, 2), StatusEffectInstance(WEAKEN, 1)>>}

ResolverEnemyEffects ==
    {<<>>,
     <<StatusEffectInstance(WEAKEN, 1)>>,
     <<StatusEffectInstance(STUN, 2)>>,
     <<StatusEffectInstance(BLEED, 2), StatusEffectInstance(STUN, 1)>>,
     <<StatusEffectInstance(BLEED, 1), StatusEffectInstance(BLEED, 3)>>}

ResolverTurnOrders == {<<"player", "enemy">>, <<"enemy", "player">>}

\* calls made on one CombatState
MaxCalls == 3

InitResolver ==
    /\ scenes = Idle
    /\ end_conditions = Idle
    /\ player_state = Idle
    /\ pc = Idle
    /\ fsm = Idle
    /\ hist = 0
    /\ call = [op |-> "none"]
    /\ \E pd \in ResolverPlayers, enemy_type \in ResolverEnemyTypes,
          player_hp \in ResolverHp, enemy_hp \in ResolverHp,
          player_effects \in ResolverPlayerEffects,
          enemy_effects \in ResolverEnemyEffects,
          turn_order \in ResolverTurnOrders :
         /\ player_data = Some(pd)
         /\ combat_state =
              Some([CombatState(player_hp, pd.max_health,
                                [generate_enemy(pd.level, enemy_type)
                                    EXCEPT !.hp_current = enemy_hp],
                                turn_order)
                       EXCEPT !.player_status_effects = player_effects,
                              !.enemy_status_effects = enemy_effects])

\* the record of a call of execute_attack or execute_skill
Struck(op, attacker, skill, out) ==
    /\ call' = [op |-> op, attacker |-> attacker, skill |-> skill, out |-> out]
    /\ combat_state' = Some(out.cs)
    /\ hist' = hist + 1
    /\ UNCHANGED <<scenes, end_conditions, player_state, pc, player_data, fsm>>

\* CombatActions.execute_attack(combat_state, player_stats, is_player_attacking)
ExecuteAttack(is_player_attacking, rnd) ==
    /\ call.op = "none"
    /\ Struck("execute_attack",
              IF is_player_attacking THEN "player" ELSE "enemy", <<>>,
              execute_attack(combat_state[1], PlayerStats(player_data[1]),
                             is_player_attacking, rnd))

\* CombatActions.execute_skill(combat_state, player_stats, skill)
ExecuteSkill(skill, rnd) ==
    /\ call.op = "none"
    /\ Struck("execute_skill", "player", skill,
              execute_skill(combat_state[1], PlayerStats(player_data[1]),
                            skill, rnd))

\* CombatActions.process_status_effects(combat_state), called hist times in a
\* row; the record keeps the CombatState of the first call
ProcessStatusEffects ==
    /\ hist < MaxCalls
    /\ call.op \in {"none", "process_status_effects"}
    /\ call' = [op |-> "process_status_effects",
                start |-> IF call.op = "none" THEN combat_state[1] ELSE call.start]
    /\ combat_state' = Some(process_status_effects(combat_state[1]))
    /\ hist' = hist + 1
    /\ UNCHANGED <<scenes, end_conditions, player_state, pc, player_data, fsm>>

\* turns left of the Stun a list of effects holds, 0 if it holds none
RECURSIVE StunDuration(_)
StunDuration(effects) ==
    IF effects = <<>> THEN 0
    ELSE Max(IF Head(effects).effect_type = STUN THEN Head(effects).duration ELSE 0,
             StunDuration(Tail(effects)))

\* CombatHandler._execute_enemy_turn(callback, context, combat_state,
\* player_data, language), called again while it returns to the combat
\* display; the record keeps the Stun the enemy carried at the first call
\* and, per call, the hit roll and the player's hit points before and after
ExecuteEnemyTurn(rnd) ==
    /\ hist < MaxCalls
    /\ call.op \in {"none", "_execute_enemy_turn"}
    /\ call.op = "_execute_enemy_turn" => call.reply = "combat_status"
    /\ LET out == _execute_enemy_turn(combat_state[1], player_data[1],
                                      COMBAT_ACTIVE, rnd)
           before == combat_state[1]
       IN  /\ call' = [op |-> "_execute_enemy_turn", reply |-> out.reply,
                       stun |-> IF call.op = "none"
                                THEN StunDuration(before.enemy_status_effects)
                                ELSE call.stun,
                       turns |-> (IF call.op = "none" THEN <<>> ELSE call.turns)
                                 \o <<[hit |-> rnd.hit,
                                       hp_before |-> before.player_hp,
                                       bleeding |-> CountEffects(
                                           before.player_status_effects, {BLEED}),
                                       hp_after |-> out.cs.player_hp]>>]
           /\ combat_state' = Some(out.cs)
           /\ player_data' = Some(out.pd)
    /\ hist' = hist + 1
    /\ UNCHANGED <<scenes, end_conditions, player_state, pc, fsm>>

\* CombatHandler._execute_escape_attempt(callback, context, combat_state,
\* player_data, language); rnd.player.hit is the escape roll
ExecuteEscapeAttempt(rnd) ==
    /\ call.op = "none"
    /\ LET out == _execute_escape_attempt(combat_state[1], player_data[1],
                                          COMBAT_ACTIVE, rnd)
       IN  /\ call' = [op |-> "_execute_escape_attempt", rnd |-> rnd,
                       before |-> combat_state[1],
                       reply |-> out.reply, state |-> out.state]
           /\ combat_state' = Some(out.cs)
           /\ player_data' = Some(out.pd)
    /\ hist' = hist + 1
    /\ UNCHANGED <<scenes, end_conditions, player_state, pc, fsm>>

NextResolver ==
    \/ \E is_player_attacking \in BOOLEAN : \E rnd \in PlayerDraws :
         /\ rnd.extra = 50
         /\ ExecuteAttack(is_player_attacking, rnd)
    \/ \E skill \in ClassSkillValues : \E rnd \in PlayerDraws :
         /\ skill \notin {BACKSTAB, ARCANE_BOLT} => rnd.extra = 50
         /\ ExecuteSkill(skill, rnd)
    \/ ProcessStatusEffects
    \/ \E rnd \in EnemyDraws : ExecuteEnemyTurn(rnd)
    \/ \E rnd \in DrawsFor(COMBAT_RUN) : ExecuteEscapeAttempt(rnd)

SpecResolver == InitResolver /\ [][NextResolver]_vars

\* the call just made was an attack or a skill that hit
StruckHit ==
    /\ call'.op \in {"execute_attack", "execute_skill"}
    /\ call' # call
    /\ call'.out.result = "hit"

\* the damage of a hit as stated: base plus dice roll, times 1.5 rounded down
\* on a crit, then less armor but at least 1 unless the armor is ignored
StatedDamage(base_damage, dice_roll, is_crit, armor, ignore_armor) ==
    LET rolled == base_damage + dice_roll
        dealt == IF is_crit THEN (rolled * 3) \div 2 ELSE rolled
    IN  IF ignore_armor THEN dealt
        ELSE IF dealt - armor < 1 THEN 1 ELSE dealt - armor

\* hit points of the side the call struck
DefenderHp(cs, attacker) ==
    IF attacker = "player" THEN cs.enemy.hp_current ELSE cs.player_hp

\* C23: every attack or skill that hits deals at least 1 damage: the damage
\* is base plus dice roll, times 1.5 rounded down on a crit, then
\* max(1, damage - armor) unless the armor is ignored, and the defender's hit
\* points go down by exactly that amount, short of the clamp at 0.
C23_HitDealsAtLeastOne ==
    [][StruckHit =>
         LET out == call'.out
             before == DefenderHp(combat_state[1], call'.attacker)
             after == DefenderHp(combat_state'[1], call'.attacker)
         IN  /\ out.damage >= 1
             /\ out.damage = StatedDamage(out.base_damage, out.dice_roll,
                                          out.is_crit, out.armor, out.ignore_armor)
             /\ \/ after = before - out.damage
                \/ before - out.damage < 0 /\ after = 0]_vars

\* a hit whose damage does not exceed the armor: Arcane Bolt of the mock
\* player (magic 2, 1d8 at 1) on the gargoyle's armor 3 deals 1
C23_Witness ==
    /\ call.op = "execute_skill"
    /\ call.out.result = "hit"
    /\ ~call.out.ignore_armor
    /\ call.out.base_damage + call.out.dice_roll <= call.out.armor
    /\ call.out.damage = 1

-----------------------------------------------------------------------------
(* Claims about the turn cycle of the combat handlers                      *)

\* the update handled by this step let the player attack, use a skill or try
\* to escape: the callback was an action callback and a line was logged
PlayerActed ==
    /\ InCombatData
    /\ fsm'.updates = fsm.updates + 1
    /\ fsm'.last \in ActionCallbacks
    /\ combat_state'[1].combat_log > combat_state[1].combat_log

\* no side has acted yet in this combat: every turn logs at least one line
NoTurnTaken(cs) == cs.combat_log = 0

\* C24: the turns of a combat follow turn_order cyclically: when the
\* initiative yields [enemy, player] the enemy acts before the player's first
\* action, and from then on the two sides alternate strictly until the
\* combat ends in Victory, Defeat or Escaped.
C24_TurnsFollowTurnOrder ==
    [][PlayerActed =>
         /\ NoTurnTaken(combat_state[1]) => combat_state[1].turn_order[1] = "player"
         /\ fsm'.reply = "combat_status" =>
                combat_state'[1].combat_log >= combat_state[1].combat_log + 2]_vars

\* the update handled by this step was an attack, a skill or an escape
\* attempt that the handler carried out
CombatStepTaken ==
    /\ InCombatData
    /\ fsm'.updates = fsm.updates + 1
    /\ fsm'.last \in ActionCallbacks
    /\ fsm'.reply \notin ErrorReplies

\* C25: whenever enemy.hp_current <= 0 after a combat step the combat goes to
\* Victory, whenever player_hp <= 0 it goes to Defeat; the combat never comes
\* back to the player's decision point while either is <= 0, and the enemy
\* never attacks after its hit points reached 0.
C25_VictoryDefeatTransitions ==
    [][CombatStepTaken =>
         LET before == combat_state[1]
             after == combat_state'[1]
         IN  /\ after.enemy.hp_current <= 0 => fsm'.reply = "victory"
             /\ (after.player_hp <= 0 /\ after.enemy.hp_current > 0)
                    => fsm'.reply = "defeat"
             /\ fsm'.reply = "combat_status" =>
                    (after.player_hp > 0 /\ after.enemy.hp_current > 0)
             /\ before.enemy.hp_current <= 0 =>
                    after.player_hp >= before.player_hp]_vars

-----------------------------------------------------------------------------
(* The combat loop of test_combat.simulate_combat: one turn of one side    *)
(* per iteration, chosen by CombatState.is_player_turn.                    *)

\* CombatState.is_player_turn
is_player_turn(cs) ==
    cs.turn_order[(cs.current_turn % Len(cs.turn_order)) + 1] = "player"

\* the stats dict simulate_combat hands to execute_attack for the enemy's
\* attack: the enemy's own attack and agility
SimEnemyStats(cs) ==
    [attack |-> cs.enemy.attack, agility |-> cs.enemy.agility, crit_chance |-> 5]

\* the state after create_test_player, generate_enemy(1, "goblin") and
\* calculate_initiative
InitSim ==
    /\ scenes = Idle
    /\ end_conditions = Idle
    /\ player_state = Idle
    /\ fsm = Idle
    /\ pc = "loop"
    /\ hist = 0
    /\ call = [actor |-> "none", skill |-> None]
    /\ player_data = Some(TestWarriorData)
    /\ \E p \in InitiativeRolls, e \in InitiativeRolls :
         LET pd == TestWarriorData
             enemy == generate_enemy(1, "goblin")
         IN  combat_state =
               Some(CombatState(pd.health, pd.max_health, enemy,
                                calculate_initiative(pd.agility, enemy.agility, p, e)))

\* one iteration of "while not combat_state.is_combat_over"; hist is turn
SimulateTurn(rnd) ==
    /\ pc = "loop"
    /\ LET cs == combat_state[1]
           pd == player_data[1]
           turn == hist + 1
           player_turn == is_player_turn(cs)
           available_skills ==
               get_available_skills(pd.character_class, cs.player_skill_cooldowns)
           use_skill == player_turn /\ turn = 1 /\ available_skills # <<>>
           acted ==
               IF use_skill
               THEN LET skill == available_skills[1]
                        out == execute_skill(cs, PlayerStats(pd), skill, rnd)
                    IN  [out.cs EXCEPT
                           !.player_skill_cooldowns =
                               [s \in DOMAIN @ \cup {skill} |->
                                   IF s = skill THEN 2 ELSE @[s]],
                           !.enemy_status_effects = @ \o out.new_effects,
                           !.combat_log = @ + 1 + Len(out.new_effects)]
               ELSE IF player_turn
               THEN [execute_attack(cs, PlayerStats(pd), TRUE, rnd).cs
                        EXCEPT !.combat_log = @ + 1]
               ELSE IF CountEffects(cs.enemy_status_effects, {STUN}) > 0
               THEN [cs EXCEPT !.combat_log = @ + 1]
               ELSE [execute_attack(cs, SimEnemyStats(cs), FALSE, rnd).cs
                        EXCEPT !.combat_log = @ + 1]
           broke == IF player_turn THEN acted.enemy.hp_current <= 0
                    ELSE acted.player_hp <= 0
           ticked == [update_skill_cooldowns(process_status_effects(acted))
                         EXCEPT !.player_crit_bonus = 0,
                                !.current_turn = @ + 1]
           after == IF broke THEN acted ELSE ticked
       IN  /\ combat_state' = Some(after)
           /\ call' = [actor |-> IF player_turn THEN "player" ELSE "enemy",
                       skill |-> IF use_skill THEN Some(available_skills[1])
                                 ELSE call.skill]
           /\ pc' = IF broke \/ turn > 20 \/ is_combat_over(after)
                    THEN "done" ELSE "loop"
    /\ hist' = hist + 1
    /\ UNCHANGED <<scenes, end_conditions, player_state, player_data, fsm>>

NextSim ==
    \E rnd \in PlayerDraws :
        /\ rnd.extra = 50
        /\ SimulateTurn(rnd)

SpecSim == InitSim /\ [][NextSim]_vars

\* full rounds (one turn of each side) completed by the loop
FullRounds(cs) == cs.current_turn \div Len(cs.turn_order)

\* C26: using a skill sets its cooldown to 2; the cooldowns go down by
\* exactly 1 once per full round (one player action plus one enemy turn) and
\* an entry is removed at 0, so that a skill used in the first turn of a
\* combat carries 2 less the full rounds completed since, and no entry once
\* that is 0.
C26_CooldownPerFullRound ==
    (pc = "loop" /\ call.skill # None) =>
        LET cs == combat_state[1]
            skill == call.skill[1]
            stated == 2 - FullRounds(cs)
        IN  IF stated > 0
            THEN /\ skill \in DOMAIN cs.player_skill_cooldowns
                 /\ cs.player_skill_cooldowns[skill] = stated
                 /\ get_available_skills(player_data[1].character_class,
                                         cs.player_skill_cooldowns) = <<>>
            ELSE skill \notin DOMAIN cs.player_skill_cooldowns

-----------------------------------------------------------------------------
(* Claims about the enemy's turn and the status effects                    *)

\* the player's hit points after a turn in which only the end-of-round tick
\* touched them: every Bleed the player carries takes 2, not below 0
AfterTickOnly(turn) ==
    IF turn.hp_before - 2 * turn.bleeding < 0 THEN 0
    ELSE turn.hp_before - 2 * turn.bleeding

\* C27: an enemy that carries an active Stun at the start of its turn makes
\* no attack in that turn (player_hp is not reduced by an enemy attack); a
\* Stun of duration d makes the enemy skip exactly d turns, and in the turn
\* after them the enemy attacks again.
C27_StunSkipsTurns ==
    call.op = "_execute_enemy_turn" =>
        \A k \in 1..Len(call.turns) :
            LET turn == call.turns[k] IN
            IF k <= call.stun
            THEN turn.hp_after = AfterTickOnly(turn)
            ELSE (/\ turn.hit <= calculate_hit_chance(combat_state[1].enemy.agility,
                                                      player_data[1].agility)
                  /\ AfterTickOnly(turn) > 0)
                     => turn.hp_after < AfterTickOnly(turn)

\* a Stun of duration 2: two turns in which hit rolls that would have hit
\* took nothing from the player, then a third in which the attack lands
C27_Witness ==
    /\ call.op = "_execute_enemy_turn"
    /\ call.stun = 2
    /\ Len(call.turns) = 3
    /\ \A k \in 1..3 : call.turns[k].hit = 50
    /\ call.turns[1].hp_after = call.turns[1].hp_before
    /\ call.turns[2].hp_after = call.turns[2].hp_before
    /\ call.turns[3].hp_after < call.turns[3].hp_before

\* a list of effects after n ticks as stated: every duration n lower, the
\* effects whose duration reached 0 gone, the others in their order
StatedEffects(effects, n) ==
    LET Left(effect) == effect.duration > 0
    IN  SelectSeq([i \in 1..Len(effects) |->
                      [effects[i] EXCEPT !.duration = @ - n]], Left)

\* the damage the Bleeds of a list deal in n ticks as stated: 2 per tick for
\* as many ticks as the Bleed lasts
RECURSIVE StatedBleed(_, _)
StatedBleed(effects, n) ==
    IF effects = <<>> THEN 0
    ELSE (IF Head(effects).effect_type = BLEED
          THEN 2 * (IF Head(effects).duration < n THEN Head(effects).duration ELSE n)
          ELSE 0)
         + StatedBleed(Tail(effects), n)

\* hit points less a damage, floored at 0
Floored(hp, damage) == IF hp - damage < 0 THEN 0 ELSE hp - damage

\* C28: every tick of process_status_effects takes exactly 1 off the duration
\* of every status effect of both sides and removes the effects whose
\* duration reached 0, so that none with duration <= 0 is left; every Bleed
\* takes exactly 2 hit points from its carrier per tick, 2 * d in all for a
\* Bleed of duration d, the hit points floored at 0.
C28_TickDurationsAndBleed ==
    call.op = "process_status_effects" =>
        LET cs == combat_state[1]
            start == call.start
        IN  /\ cs.player_status_effects = StatedEffects(start.player_status_effects, hist)
            /\ cs.enemy_status_effects = StatedEffects(start.enemy_status_effects, hist)
            /\ \A i \in 1..Len(cs.player_status_effects) :
                   cs.player_status_effects[i].duration > 0
            /\ \A i \in 1..Len(cs.enemy_status_effects) :
                   cs.enemy_status_effects[i].duration > 0
            /\ cs.player_hp =
                   Floored(start.player_hp, StatedBleed(start.player_status_effects, hist))
            /\ cs.enemy.hp_current =
                   Floored(start.enemy.hp_current,
                           StatedBleed(start.enemy_status_effects, hist))

\* three ticks on a player of 5 hit points with Bleed 2 and Weaken 1 and an
\* enemy of 5 hit points with Bleed 1 and Bleed 3: the player is left with
\* 5 - 2 * 2 and no effect, the enemy with 0 and no effect
C28_Witness ==
    /\ call.op = "process_status_effects"
    /\ hist = 3
    /\ call.start.player_hp = 5
    /\ Len(call.start.player_status_effects) = 2
    /\ call.start.enemy.hp_current = 5
    /\ Len(call.start.enemy_status_effects) = 2
    /\ call.start.enemy_status_effects[1].effect_type = BLEED
    /\ call.start.enemy_status_effects[2].effect_type = BLEED
    /\ combat_state[1].player_hp = 1
    /\ combat_state[1].player_status_effects = <<>>
    /\ combat_state[1].enemy.hp_current = 0
    /\ combat_state[1].enemy_status_effects = <<>>

-----------------------------------------------------------------------------
(* Claims about the escape attempt                                         *)

\* the escape chance as stated, in percent
StatedEscapeChance(agility) == IF 50 + agility > 85 THEN 85 ELSE 50 + agility

\* C29: a successful escape attempt ends the combat in Escaped with no enemy
\* turn and no change to player_hp or enemy.hp_current; a failed escape
\* attempt is followed by exactly one enemy turn, end-of-round tick
\* included, before the player may act again.
C29_EscapeOutcome ==
    call.op = "_execute_escape_attempt" =>
        LET after == combat_state[1]
            pd == player_data[1]
            tried == [call.before EXCEPT !.combat_log = @ + 1]
            enemy_turn == _execute_enemy_turn(tried, pd, COMBAT_ACTIVE, call.rnd.enemy)
        IN  IF call.rnd.player.hit <= StatedEscapeChance(pd.agility)
            THEN /\ call.reply = "escape"
                 /\ call.state = NO_STATE
                 /\ after = tried
            ELSE /\ call.reply \in {"combat_status", "defeat"}
                 /\ after = enemy_turn.cs
                 /\ call.reply = enemy_turn.reply
                 /\ after.player_status_effects =
                        StatedEffects(call.before.player_status_effects, 1)
                 /\ after.enemy_status_effects =
                        StatedEffects(call.before.enemy_status_effects, 1)

\* a failed escape attempt: the enemy, not stunned, has hit the player, the
\* tick has taken a turn off the player's Weaken, and the combat display is
\* shown again
C29_Witness ==
    /\ call.op = "_execute_escape_attempt"
    /\ call.rnd.player.hit = 99
    /\ call.reply = "combat_status"
    /\ combat_state[1].player_hp < call.before.player_hp
    /\ Len(call.before.player_status_effects) = 1
    /\ combat_state[1].player_status_effects = <<StatusEffectInstance(WEAKEN, 1)>>

-----------------------------------------------------------------------------
(* Claims about Weaken                                                     *)

\* the status effects of the side that struck
AttackerEffects(cs, attacker) ==
    IF attacker = "player" THEN cs.player_status_effects
    ELSE cs.enemy_status_effects

\* C30: a combatant that carries an active Weaken deals reduced attack
\* damage: the damage of a hit of execute_attack or execute_skill is lower
\* than the damage of the same roll without the Weaken.
C30_WeakenReducesDamage ==
    [][(/\ StruckHit
        /\ CountEffects(AttackerEffects(combat_state[1], call'.attacker),
                        {WEAKEN}) > 0)
       => LET out == call'.out IN
          out.damage < StatedDamage(out.base_damage, out.dice_roll, out.is_crit,
                                    out.armor, out.ignore_armor)]_vars

-----------------------------------------------------------------------------
(* Claims about the initiative                                             *)

\* C31: with the player's roll p and the enemy's roll e, each in 1..6,
\* turn_order is [player, enemy] iff player_agi + p >= enemy_agi + e and
\* [enemy, player] otherwise; a tie goes to the player, and turn_order
\* holds each side exactly once.
C31_Initiative ==
    call.op = "calculate_initiative" =>
        LET player_init == call.attacker_agi + call.p
            enemy_init == call.defender_agi + call.e
            turn_order == call.result
        IN  /\ (turn_order = <<"player", "enemy">>) <=> (player_init >= enemy_init)
            /\ (turn_order = <<"enemy", "player">>) <=> (player_init < enemy_init)
            /\ Len(turn_order) = 2
            /\ \A side \in {"player", "enemy"} :
                   Cardinality({i \in 1..Len(turn_order) : turn_order[i] = side}) = 1

\* a tie between unequal agilities: 8 + 3 against 10 + 1, the player first
C31_Witness ==
    /\ call.op = "calculate_initiative"
    /\ call.attacker_agi = 8 /\ call.p = 3
    /\ call.defender_agi = 10 /\ call.e = 1
    /\ call.result = <<"player", "enemy">>

-----------------------------------------------------------------------------
(* Two executions side by side: runs a and b start from equal PlayerState  *)
(* and CombatState on the same graph, get the same caller inputs and the   *)
(* same values for every random draw the code consumes; a draw the code    *)
(* does not reach may differ between them.                                 *)

\* operations applied to the pair
MaxTwinSteps == 3

\* every value the draws of one execute_attack can take
AttackDraws == [hit : HitRolls, crit : CritRolls, dice : DiceDraws]

\* get_next_scene reaches its random.choices: there is a candidate
SelectionDraws(graph, ps, current_scene_id) ==
    IF current_scene_id = None \/ current_scene_id = Some(<<>>)
    THEN LET available_scenes == AvailableScenes(graph, ps, <<>>)
         IN  ~available_scenes.raised /\ available_scenes.value # <<>>
    ELSE LET current_scene == ScenesGet(graph, current_scene_id[1]) IN
         /\ current_scene # None
         /\ LET available_transitions ==
                    AvailableTransitions(current_scene[1].transitions, graph, ps, <<>>)
            IN  ~available_transitions.raised /\ available_transitions.value # <<>>

\* execute_attack reaches its crit roll and its dice: the hit roll is within
\* the hit chance
AttackDrawsAll(cs, player_stats, is_player_attacking, rnd) ==
    rnd.hit <= (IF is_player_attacking
                THEN calculate_hit_chance(player_stats.agility, cs.enemy.agility)
                ELSE calculate_hit_chance(cs.enemy.agility, player_stats.agility))

InitTwin ==
    /\ scenes = MainGraph
    /\ end_conditions = Idle
    /\ pc = Idle
    /\ fsm = Idle
    /\ hist = 0
    /\ call = [op |-> "none"]
    /\ player_data = Some(MockPlayerData)
    /\ \E e \in InitEnergies :
         player_state = [a |-> NewPlayerState(e), b |-> NewPlayerState(e)]
    /\ \E enemy_type \in EnemyTypes, p \in InitiativeRolls, e \in InitiativeRolls :
         LET pd == MockPlayerData
             enemy == generate_enemy(pd.level, enemy_type)
             cs == CombatState(pd.health, pd.max_health, enemy,
                               calculate_initiative(pd.agility, enemy.agility, p, e))
         IN  combat_state = [a |-> cs, b |-> cs]

\* get_next_scene and, on a scene, apply_scene_consequences, as the
\* adventure handlers call them
SelectAndApply(ps, current_scene_id, k) ==
    LET next_scene == get_next_scene(scenes, ps, current_scene_id, k) IN
    [result |-> next_scene,
     ps |-> IF next_scene.raised \/ next_scene.value = None THEN ps
            ELSE [apply_scene_consequences(next_scene.value[1], ps)
                     EXCEPT !.current_scene = Some(next_scene.value[1].id)]]

TwinSelect(current_scene_id, ka, kb) ==
    /\ hist < MaxTwinSteps
    /\ SelectionDraws(scenes, player_state.a, current_scene_id) => ka = kb
    /\ LET a == SelectAndApply(player_state.a, current_scene_id, ka)
           b == SelectAndApply(player_state.b, current_scene_id, kb)
       IN  /\ player_state' = [a |-> a.ps, b |-> b.ps]
           /\ call' = [op |-> "get_next_scene", a |-> a.result, b |-> b.result,
                       same_draws |-> ka = kb]
    /\ hist' = hist + 1
    /\ UNCHANGED <<scenes, end_conditions, pc, combat_state, player_data, fsm>>

\* process_action and apply_consequence; its one random.random() is always
\* consumed
TwinAction(action, scene_type, r) ==
    /\ hist < MaxTwinSteps
    /\ LET a == apply_consequence(process_action(action, player_state.a, scene_type),
                                  player_state.a, r)
           b == apply_consequence(process_action(action, player_state.b, scene_type),
                                  player_state.b, r)
       IN  /\ player_state' = [a |-> a.ps, b |-> b.ps]
           /\ call' = [op |-> "apply_consequence", a |-> a.success,
                       b |-> b.success, same_draws |-> TRUE]
    /\ hist' = hist + 1
    /\ UNCHANGED <<scenes, end_conditions, pc, combat_state, player_data, fsm>>

\* execute_attack; the returned values and the CombatState with its log
TwinAttack(is_player_attacking, rnd_a, rnd_b) ==
    /\ hist < MaxTwinSteps
    /\ rnd_a.hit = rnd_b.hit
    /\ AttackDrawsAll(combat_state.a, PlayerStats(player_data[1]),
                      is_player_attacking, rnd_a) => rnd_a = rnd_b
    /\ LET a == execute_attack(combat_state.a, PlayerStats(player_data[1]),
                               is_player_attacking, rnd_a)
           b == execute_attack(combat_state.b, PlayerStats(player_data[1]),
                               is_player_attacking, rnd_b)
       IN  /\ combat_state' = [a |-> [a.cs EXCEPT !.combat_log = @ + 1],
                               b |-> [b.cs EXCEPT !.combat_log = @ + 1]]
           /\ call' = [op |-> "execute_attack",
                       a |-> <<a.damage, a.is_crit, a.result>>,
                       b |-> <<b.damage, b.is_crit, b.result>>,
                       same_draws |-> rnd_a = rnd_b]
    /\ hist' = hist + 1
    /\ UNCHANGED <<scenes, end_conditions, pc, player_state, player_data, fsm>>

NextTwin ==
    \/ \E ka \in 0..(RandomDraws - 1), kb \in 0..(RandomDraws - 1) :
         \/ TwinSelect(player_state.a.current_scene, ka, kb)
         \/ TwinSelect(Some(GHOST), ka, kb)
    \/ \E action \in ModelActions, scene_type \in {"combat", "rest"}, r \in Rolls :
         TwinAction(action, scene_type, r)
    \/ \E is_player_attacking \in BOOLEAN :
         \E rnd_a \in AttackDraws, rnd_b \in AttackDraws :
            TwinAttack(is_player_attacking, rnd_a, rnd_b)

SpecTwin == InitTwin /\ [][NextTwin]_vars

-----------------------------------------------------------------------------
(* Construction of the scene graph: SceneGraphManager.__init__ and         *)
(* _load_scenes on a scenes file that is missing, empty, well-formed or    *)
(* malformed in one of its entries.                                        *)

\* the values of SceneType
SceneTypeValues == {"story", "choice", "encounter", "dialogue", "rest",
                    "exploration", "quest", "loot", "combat"}

\* entries of a scene's 'transitions' list; a key the entry lacks is None
TransitionData(to, weight) == [to |-> to, weight |-> weight]

\* entries of the document's 'scenes' list
SceneData(id, kind, weight, transitions) ==
    [id |-> id, kind |-> kind, weight |-> weight, transitions |-> transitions]

\* entries of the document's 'end_conditions' list
ConditionData(kind, threshold) == [kind |-> kind, threshold |-> threshold]

SceneEntries ==
    {SceneData(Some(TAVERN), "story", Some(2),
               <<TransitionData(Some(MARKET), Some(1))>>),
     SceneData(Some(MARKET), "rest", Some(1), <<>>),
     SceneData(None, "story", Some(1), <<>>),
     SceneData(Some(CAVE), "boss", Some(1), <<>>),
     SceneData(Some(FOREST), "combat", Some(1),
               <<TransitionData(None, Some(1))>>)}

ConditionEntries ==
    {ConditionData(Some("risk_threshold"), Some(5)),
     ConditionData(Some("energy_depleted"), Some(0)),
     ConditionData(None, Some(3))}

\* entries per list of a document
MaxEntries == 2

UpTo(pool, n) == UNION {[1..len -> pool] : len \in 0..n}

\* the scenes file: missing, empty (safe_load gives None), or a document
Documents ==
    {[exists |-> FALSE, data |-> None], [exists |-> TRUE, data |-> None]}
    \cup {[exists |-> TRUE,
           data |-> Some([scenes |-> scene_list, end_conditions |-> condition_list])] :
             scene_list \in UpTo(SceneEntries, MaxEntries),
             condition_list \in UpTo(ConditionEntries, MaxEntries)}

\* the loop over trans_data: KeyError on a missing 'to' or 'weight'
RECURSIVE LoadTransitions(_, _)
LoadTransitions(transitions, acc) ==
    IF transitions = <<>> THEN Ret(acc)
    ELSE LET trans_data == Head(transitions) IN
         IF trans_data.to = None \/ trans_data.weight = None THEN ValueError
         ELSE LoadTransitions(Tail(transitions),
                              Append(acc, SceneTransition(trans_data.to[1],
                                                          trans_data.weight[1], <<>>)))

\* "self.scenes[scene.id] = scene" on the insertion-ordered dict
PutScene(graph, scene) ==
    IF \E i \in 1..Len(graph) : graph[i].id = scene.id
    THEN [i \in 1..Len(graph) |-> IF graph[i].id = scene.id THEN scene ELSE graph[i]]
    ELSE Append(graph, scene)

\* the loop over data.get('scenes', []): the dict as the loop leaves it, and
\* whether the loop was left by an exception (KeyError on a missing key,
\* ValueError of SceneType)
RECURSIVE LoadSceneEntries(_, _)
LoadSceneEntries(entries, graph) ==
    IF entries = <<>> THEN [raised |-> FALSE, value |-> graph]
    ELSE LET scene_data == Head(entries)
             transitions == LoadTransitions(scene_data.transitions, <<>>)
         IN  IF \/ scene_data.id = None
                \/ scene_data.kind \notin SceneTypeValues
                \/ scene_data.weight = None
                \/ transitions.raised
             THEN [raised |-> TRUE, value |-> graph]
             ELSE LoadSceneEntries(
                      Tail(entries),
                      PutScene(graph,
                               Scene(scene_data.id[1], scene_data.kind,
                                     scene_data.weight[1], FALSE, <<>>, <<>>,
                                     transitions.value, 0, 0, None)))

\* the loop over data.get('end_conditions', [])
RECURSIVE LoadConditionEntries(_, _)
LoadConditionEntries(entries, conditions) ==
    IF entries = <<>> THEN [raised |-> FALSE, value |-> conditions]
    ELSE LET cond_data == Head(entries) IN
         IF cond_data.kind = None THEN [raised |-> TRUE, value |-> conditions]
         ELSE LoadConditionEntries(
                  Tail(entries),
                  Append(conditions,
                         EndCondition(cond_data.kind[1], cond_data.threshold,
                                      None, FALSE, None, <<>>)))

\* SceneGraphManager.__init__ with _load_scenes: the scenes and end
\* conditions of the manager; "except Exception" lets nothing out
_load_scenes(document) ==
    IF ~document.exists \/ document.data = None
    THEN [raised |-> FALSE, scenes |-> <<>>, end_conditions |-> <<>>]
    ELSE LET loaded == LoadSceneEntries(document.data[1].scenes, <<>>)
             conditions == LoadConditionEntries(document.data[1].end_conditions, <<>>)
         IN  [raised |-> FALSE, scenes |-> loaded.value,
              end_conditions |-> IF loaded.raised THEN <<>> ELSE conditions.value]

InitLoad ==
    /\ scenes = <<>>
    /\ end_conditions = <<>>
    /\ player_state = Idle
    /\ pc = "new"
    /\ \E document \in Documents : call = [op |-> "none", document |-> document]
    /\ hist = Idle
    /\ combat_state = Idle
    /\ player_data = Idle
    /\ fsm = Idle

\* SceneGraphManager(scenes_file)
Construct ==
    /\ pc = "new"
    /\ LET manager == _load_scenes(call.document) IN
       /\ scenes' = manager.scenes
       /\ end_conditions' = manager.end_conditions
       /\ call' = [op |-> "__init__", document |-> call.document,
                   raised |-> manager.raised]
    /\ pc' = "constructed"
    /\ UNCHANGED <<player_state, hist, combat_state, player_data, fsm>>

NextLoad == Construct

SpecLoad == InitLoad /\ [][NextLoad]_vars

\* a scene entry the loader cannot turn into a Scene
MalformedScene(scene_data) ==
    \/ scene_data.id = None
    \/ scene_data.weight = None
    \/ scene_data.kind \notin SceneTypeValues
    \/ \E i \in 1..Len(scene_data.transitions) :
          scene_data.transitions[i].to = None \/ scene_data.transitions[i].weight = None

\* loading the document fails: no file, no mapping in it, or a malformed
\* entry anywhere in its lists
LoadFails(document) ==
    \/ ~document.exists
    \/ document.data = None
    \/ \E i \in 1..Len(document.data[1].scenes) :
          MalformedScene(document.data[1].scenes[i])
    \/ \E i \in 1..Len(document.data[1].end_conditions) :
          document.data[1].end_conditions[i].kind = None

\* C33: if loading the scene definition fails in any way, wherever in the
\* document the malformed entry is, construction does not raise and the
\* graph is empty: no scenes and no end conditions.
C33_FailedLoadGivesEmptyGraph ==
    (pc = "constructed" /\ LoadFails(call.document)) =>
        /\ ~call.raised
        /\ scenes = <<>>
        /\ end_conditions = <<>>

-----------------------------------------------------------------------------
(* The operations of the core, one call per step, on one graph and one     *)
(* PlayerState: the selection and the checks return a value, and only      *)
(* apply_scene_consequences and apply_consequence assign to the            *)
(* PlayerState they are given.  No operation assigns to                    *)
(* SceneGraphManager.scenes, to a Scene or to end_conditions.              *)

MaxCoreOps == 4

CoreSceneTypes == {"combat", "rest", "story"}

InitCore ==
    /\ scenes \in Graphs
    /\ end_conditions \in AdventureEndConditions
    /\ \E e \in InitEnergies : player_state = NewPlayerState(e)
    /\ pc = "idle"
    /\ call = [op |-> "none"]
    /\ hist = 0
    /\ combat_state = Idle
    /\ player_data = Idle
    /\ fsm = Idle

\* one more call of a core operation that returns result
CoreCall(op, result) ==
    /\ hist < MaxCoreOps
    /\ hist' = hist + 1
    /\ call' = [op |-> op, result |-> result]
    /\ UNCHANGED <<scenes, end_conditions, pc, combat_state, player_data, fsm>>

\* scene_graph.get_next_scene(player_state, current_scene_id)
CoreGetNextScene(current_scene_id, k) ==
    /\ CoreCall("get_next_scene",
                get_next_scene(scenes, player_state, current_scene_id, k))
    /\ UNCHANGED player_state

\* scene_graph._check_scene_availability(scene, player_state), which runs
\* _check_requirement on the scene's requires and blocks
CoreCheckSceneAvailability(i) ==
    /\ CoreCall("_check_scene_availability",
                _check_scene_availability(scenes[i], player_state))
    /\ UNCHANGED player_state

\* scene_graph.check_end_conditions(player_state)
CoreCheckEndConditions ==
    /\ CoreCall("check_end_conditions",
                check_end_conditions(end_conditions, player_state))
    /\ UNCHANGED player_state

CoreProcessAction_Spends(action, scene_type) ==
    LET consequence == process_action(action, player_state, scene_type) IN
    /\ CoreCall("process_action", consequence)
    /\ player_state' =
         [player_state EXCEPT !.energy = Max(0, @ - consequence.energy_cost)]

\* ActionProcessor.process_action(action, player_state, scene_context)
CoreProcessAction(action, scene_type) ==
    /\ CoreCall("process_action",
                process_action(action, player_state, scene_type))
    /\ UNCHANGED player_state

\* get_available_actions(scene_type, player_state)
CoreGetAvailableActions(scene_type) ==
    /\ CoreCall("get_available_actions",
                get_available_actions(scene_type, player_state))
    /\ UNCHANGED player_state

\* scene_graph.apply_scene_consequences(next_scene, player_state) on the scene
\* the last get_next_scene returned
CoreApplySceneConsequences ==
    /\ call.op = "get_next_scene"
    /\ ~call.result.raised
    /\ call.result.value # None
    /\ CoreCall("apply_scene_consequences", call.result.value[1].id)
    /\ player_state' = apply_scene_consequences(call.result.value[1], player_state)

\* ActionProcessor.apply_consequence(consequence, player_state) on a resolved
\* consequence, with the roll r
CoreApplyConsequence(action, scene_type, r) ==
    LET out == apply_consequence(
                   process_action(action, player_state, scene_type),
                   player_state, r)
    IN  /\ CoreCall("apply_consequence", out.success)
        /\ player_state' = out.ps

NextCore ==
    \/ \E id \in SceneIds(scenes) \cup {GHOST} :
         \E k \in 0..(RandomDraws - 1) : CoreGetNextScene(Some(id), k)
    \/ \E k \in 0..(RandomDraws - 1) : CoreGetNextScene(None, k)
    \/ \E i \in 1..Len(scenes) : CoreCheckSceneAvailability(i)
    \/ CoreCheckEndConditions
    \/ \E action \in ModelActions, scene_type \in CoreSceneTypes :
         CoreProcessAction(action, scene_type)
    \/ \E scene_type \in CoreSceneTypes : CoreGetAvailableActions(scene_type)
    \/ CoreApplySceneConsequences
    \/ \E action \in ModelActions, scene_type \in CoreSceneTypes :
         \E r \in Rolls : CoreApplyConsequence(action, scene_type, r)

SpecCore == InitCore /\ [][NextCore]_vars

ReadOnlyOperations ==
    {"get_next_scene", "_check_scene_availability", "check_end_conditions",
     "process_action", "get_available_actions"}

-----------------------------------------------------------------------------
(* Runs that follow an ended run                                           *)

\* a run of this user has ended: _end_adventure stored its PlayerState and
\* cleared adventure_active
PreviousRunEnded == player_state # None /\ ~fsm.adventure_active

\* the step is a cmd_adventure that starts a run
RunStarted == call'.op = "cmd_adventure" /\ fsm'.adventure_active

\* C35: when cmd_adventure starts a run after a previous run of the same user
\* has ended, the run starts from a freshly created PlayerState (step_count 0,
\* risk_level 0, no visited scenes, no cooldowns), as a first run does, and
\* not from the values the previous run left.
C35_NewRunStartsFresh ==
    [][(PreviousRunEnded /\ RunStarted) =>
         \E k \in 0..(RandomDraws - 1) :
            LET fresh == cmd_adventure(None, fsm, k).ps IN
            /\ fresh # None
            /\ player_state'.step_count = fresh.step_count
            /\ player_state'.risk_level = fresh.risk_level
            /\ player_state'.visited_scenes = fresh.visited_scenes
            /\ player_state'.scene_cooldowns = fresh.scene_cooldowns
    ]_vars

-----------------------------------------------------------------------------
(* Callbacks that arrive after the encounter has ended                     *)

\* the encounter of the stored CombatState has ended: the victory, defeat or
\* escape handler has left the combat state of the FSM (set_state(None))
EncounterEnded == InCombatData /\ fsm.state = NO_STATE

\* C36: once an encounter has ended in Victory, Defeat or Escaped, no later
\* attack, skill or run callback for it changes the CombatState or the
\* player's data, so the victory rewards and the defeat penalty are applied
\* at most once per encounter.
C36_EndedCombatAbsorbing ==
    [][(/\ EncounterEnded
        /\ fsm'.updates = fsm.updates + 1
        /\ fsm'.last \in ActionCallbacks)
         => (/\ combat_state' = combat_state
             /\ player_data' = player_data)]_vars

-----------------------------------------------------------------------------
(* The cost of the offered actions                                         *)

\* C37: every action returned by get_available_actions(scene_type, state) is
\* affordable when resolved in that scene: the energy_cost process_action
\* computes for it, the scene type and the state is <= state.energy, so
\* applying an offered action never needs the lower clamp of energy at 0.
C37_OfferedActionsAffordable ==
    call.op = "get_available_actions" =>
        \A i \in 1..Len(call.result) :
            process_action(call.result[i], player_state,
                           call.scene_type).energy_cost <= player_state.energy

-----------------------------------------------------------------------------
(* One run of the adventure loop under a step budget, with a player who    *)
(* keeps pressing a button of the keyboard the last handler sent.          *)
(* on_adventure_action edits the message its button belongs to, so the     *)
(* keyboard of the last reply is the only one of the run.                  *)

\* the end-condition lists with a step_budget condition
BudgetEndConditions ==
    {conditions \in AdventureEndConditions :
        \E i \in 1..Len(conditions) : conditions[i].kind = "step_budget"}
    \cup {<< EndCondition("step_budget", None, None, FALSE, Some(3), <<>>) >>}

\* the buttons the player presses: actions that change no stat
LoopActions == {"continue", "rest", "wait", "run_ai"}

\* fsm.keyboard is the keyboard of the run's message; pc is the parity of the
\* number of action callbacks handled
InitLoop ==
    /\ scenes \in Graphs
    /\ end_conditions \in BudgetEndConditions
    /\ player_state = None
    /\ pc = 0
    /\ call = [op |-> "none"]
    /\ hist = Idle
    /\ combat_state = Idle
    /\ player_data = Idle
    /\ fsm = [state |-> NO_STATE, adventure_active |-> FALSE,
              current_scene |-> None, keyboard |-> None, reply |-> "none",
              updates |-> 0]

\* the handler's outcome becomes the stored PlayerState and the FSM context,
\* keyboard the keyboard the message shows afterwards
StoreLoop(out, keyboard) ==
    /\ player_state' = out.ps
    /\ fsm' = [state |-> out.state, adventure_active |-> out.adventure_active,
               current_scene |-> out.current_scene, keyboard |-> keyboard,
               reply |-> out.reply, updates |-> fsm.updates]

\* "/adventure", once, on the fresh FSM context
StartRun(k) ==
    /\ fsm.state = NO_STATE
    /\ \E out \in {cmd_adventure(player_state, fsm, k)} :
         StoreLoop(out, out.keyboard)
    /\ call' = [op |-> "cmd_adventure"]
    /\ UNCHANGED <<scenes, end_conditions, pc, hist, combat_state, player_data>>

\* the buttons of the message's keyboard
Buttons ==
    IF fsm.keyboard = None THEN {}
    ELSE {fsm.keyboard[1][i] : i \in 1..Len(fsm.keyboard[1])}

\* the player has a button to press
CanPress == fsm.adventure_active /\ Buttons \cap LoopActions # {}

\* a press on a button of the message's keyboard while the run is active.
\* The message is edited (cb.message.edit_text) when the run goes on to a
\* scene or ends, and by _handle_ai_action when the generation service
\* answers (edited), then without a keyboard; an error is reported by
\* cb.answer alone and leaves the message and its keyboard as they were.
PressButton(action, r, k, edited) ==
    /\ CanPress
    /\ action \in Buttons
    /\ \E out \in {on_adventure_action(player_state, fsm, action, r, k)} :
         StoreLoop(out,
                   IF action = "run_ai"
                   THEN IF edited THEN None ELSE fsm.keyboard
                   ELSE IF out.adventure_active /\ out.keyboard = None
                        THEN fsm.keyboard
                        ELSE out.keyboard)
    /\ pc' = 1 - pc
    /\ call' = [op |-> "on_adventure_action", action |-> action]
    /\ UNCHANGED <<scenes, end_conditions, hist, combat_state, player_data>>

NextLoop ==
    \/ \E k \in 0..(RandomDraws - 1) : StartRun(k)
    \/ \E action \in LoopActions : \E r \in Rolls :
         \E k \in 0..(RandomDraws - 1) : \E edited \in BOOLEAN :
            PressButton(action, r, k, edited)

\* a callback is handled: the steps that change pc are the PressButton steps
CallbackHandled == CanPress /\ pc' = 1 - pc

\* the player keeps pressing a button as long as the run shows one, and
\* every callback is handled
SpecLoop == InitLoop /\ [][NextLoop]_vars /\ WF_pc(CallbackHandled)

\* C38: with a step_budget end condition configured every run eventually
\* ends: no sequence of player actions and action outcomes keeps the
\* adventure active for ever.
C38_RunEventuallyEnds ==
    fsm.adventure_active ~> ~fsm.adventure_active

-----------------------------------------------------------------------------
(* Two action callbacks of one user handled concurrently.  The Dispatcher  *)
(* of app/main.py is built without storage or events_isolation arguments:  *)
(* the FSM data live in memory, get_data hands out the stored PlayerState  *)
(* object itself, and nothing keeps two callbacks of one chat apart.  The  *)
(* coroutines of the in-memory storage do not suspend, so a callback runs  *)
(* from get_data to its first call of a service without interruption: the  *)
(* model lets the callbacks interleave at the await of                     *)
(* _generate_scene_description (and after the last write of the FSM data). *)

Callbacks == {"first", "second"}

RaceActions == {"continue", "rest"}

\* the FSM data of on_adventure_action
RaceData(state, adventure_active, current_scene, keyboard) ==
    [state |-> state, adventure_active |-> adventure_active,
     current_scene |-> current_scene, keyboard |-> keyboard]

\* a run that cmd_adventure has just started on the fresh FSM context; hist
\* keeps the PlayerState and the FSM data the two callbacks start from
InitRace ==
    /\ scenes \in Graphs
    /\ end_conditions \in AdventureEndConditions
    /\ \E k \in 0..(RandomDraws - 1) :
         LET out == cmd_adventure(None, RaceData(NO_STATE, FALSE, None, None), k)
         IN  /\ out.adventure_active
             /\ player_state = out.ps
             /\ fsm = RaceData(out.state, out.adventure_active,
                               out.current_scene, out.keyboard)
    /\ hist = [player_state |-> player_state, fsm |-> fsm]
    /\ pc = [cb \in Callbacks |-> "start"]
    /\ \E first \in RaceActions, second \in RaceActions :
         call = [cb \in Callbacks |->
                   [action |-> IF cb = "first" THEN first ELSE second,
                    next_scene |-> None]]
    /\ combat_state = Idle
    /\ player_data = Idle

\* on_adventure_action up to "await _generate_scene_description": the action
\* and the selected scene are applied to the shared PlayerState; the other
\* ways out of the handler write the FSM data, if at all, before they await
BeginCallback(cb, r, k) ==
    /\ pc[cb] = "start"
    /\ \E out \in {on_adventure_action(player_state, fsm, call[cb].action, r, k)} :
         /\ player_state' = out.ps
         /\ IF out.keyboard # None
            THEN /\ pc' = [pc EXCEPT ![cb] = "describing"]
                 /\ call' = [call EXCEPT ![cb].next_scene = out.current_scene]
                 /\ UNCHANGED fsm
            ELSE /\ pc' = [pc EXCEPT ![cb] = "done"]
                 /\ fsm' = RaceData(out.state, out.adventure_active,
                                    out.current_scene, fsm.keyboard)
                 /\ UNCHANGED call
    /\ UNCHANGED <<scenes, end_conditions, hist, combat_state, player_data>>

\* on_adventure_action from the description on: the keyboard is built from
\* the PlayerState as it is now, and state.update_data stores the handler's
\* next scene as the current scene
FinishCallback(cb) ==
    /\ pc[cb] = "describing"
    /\ LET next_scene == ScenesGet(scenes, call[cb].next_scene[1])[1] IN
       fsm' = [fsm EXCEPT
                 !.current_scene = call[cb].next_scene,
                 !.keyboard = Some(get_available_actions(next_scene.kind,
                                                         player_state))]
    /\ pc' = [pc EXCEPT ![cb] = "done"]
    /\ UNCHANGED <<scenes, end_conditions, player_state, call, hist,
                   combat_state, player_data>>

NextRace ==
    \/ \E cb \in Callbacks : \E r \in Rolls : \E k \in 0..(RandomDraws - 1) :
         BeginCallback(cb, r, k)
    \/ \E cb \in Callbacks : FinishCallback(cb)

SpecRace == InitRace /\ [][NextRace]_vars

\* the PlayerState and the stored current scene after the callback cb on ps
\* and data, handled alone
HandledAlone(ps, data, cb, r, k) ==
    LET out == on_adventure_action(ps, data, call[cb].action, r, k) IN
    [player_state |-> out.ps,
     fsm |-> RaceData(out.state, out.adventure_active, out.current_scene,
                      out.keyboard)]

\* the results of cb handled alone on each of the starts, with any draws
AfterCallback(starts, cb) ==
    UNION {{HandledAlone(start.player_state, start.fsm, cb, r, k) :
               r \in Rolls, k \in 0..(RandomDraws - 1)} : start \in starts}

\* the results of the serial executions of the two callbacks, in either
\* order and with any draws
SerialResults ==
    LET results ==
          UNION {AfterCallback(AfterCallback({hist}, first),
                               CHOOSE second \in Callbacks : second # first) :
                    first \in Callbacks}
    IN  {<<after.player_state, after.fsm.current_scene>> : after \in results}

\* C39: when two action callbacks of one user interleave at their await
\* points, the resulting PlayerState and stored current scene equal those of
\* some serial execution of the two callbacks.
C39_Serializable ==
    (\A cb \in Callbacks : pc[cb] = "done") =>
        <<player_state, fsm.current_scene>> \in SerialResults

-----------------------------------------------------------------------------
(* Skills on cooldown                                                      *)

\* ClassSkill(skill_name) of the skill callback this step handles
SelectedSkill == ClassSkill(Split(fsm'.last, UNDERSCORE)[2])

\* the step handles the selection of a skill whose cooldown entry is > 0
SkillOnCooldownSelected ==
    /\ InCombatData
    /\ player_data # None
    /\ fsm'.updates = fsm.updates + 1
    /\ fsm'.last \in SkillCallbacks
    /\ ~SelectedSkill.raised
    /\ SelectedSkill.value \in DOMAIN combat_state[1].player_skill_cooldowns
    /\ combat_state[1].player_skill_cooldowns[SelectedSkill.value] > 0

\* C40: selecting a skill whose cooldown entry is > 0 is rejected with no
\* effect: the CombatState (hit points, status effects, cooldowns, crit bonus,
\* log) is unchanged, no enemy turn and no end-of-round tick takes place, and
\* the player keeps the turn.
C40_CooldownSkillRejected ==
    [][SkillOnCooldownSelected =>
         /\ combat_state' = combat_state
         /\ player_data' = player_data
         /\ fsm'.state = fsm.state
         /\ fsm'.reply = "skill_on_cooldown"]_vars

\* Backstab was selected in the round after its use and was rejected
C40_Witness ==
    /\ InCombatData
    /\ fsm.reply = "skill_on_cooldown"
    /\ fsm.last = SKILL_PREFIX \o BACKSTAB
    /\ fsm.state = COMBAT_ACTIVE
    /\ combat_state[1].player_skill_cooldowns[BACKSTAB] > 0

====
